---- MODULE Spec2Model ----
(***************************************************************************)
(* Model of the session orchestrators of spoc-shot:                        *)
(*   - solve_multi_pass and solve_single_pass (src/app/agent.py), the two  *)
(*     async generators that drive propose / execute / verify rounds;      *)
(*   - MultiPassAgent.execute and SinglePassAgent.execute                  *)
(*     (src/agent_v2/core/agent.py), the placeholder v2 generators.        *)
(* One session is modelled.  The events a generator yields, the provider   *)
(* requests it issues and the run_tool calls it makes are logged, in       *)
(* order, in the one sequence `trace`.                                     *)
(***************************************************************************)
EXTENDS Integers, Sequences, FiniteSets, TLC

VARIABLES
    solver,         \* which generator runs this session
    WEBLLM_MODE,    \* module-level configuration of src/app/agent.py
    pc,             \* position of the generator
    attempt,        \* local `attempt`
    llm_calls,      \* metrics["llm_calls"]
    messages,       \* local `messages` / memory.messages
    response,       \* the model turn being processed (response_text)
    result,         \* the tool result being processed
    learned_patterns, \* memory.learned_patterns (v2 agents)
    trace,          \* events yielded, provider requests and tool runs, in order
    tool_call,      \* the ToolCall last passed to a method of the v2 agent
    return_value,   \* what that method returned
    tool_calls,     \* metrics["tool_calls"] (v2 agents)
    passed_args,    \* the args of tool_call when the method was called
    memories,       \* the ConversationMemory objects: their messages and patterns
    learned_in,     \* <<session, context>> of every pattern a session extracted
    acting,         \* the session whose operation was the last step (0: none yet)
    call_data,      \* the dict json.loads made of a payload, as the solver holds it
    call_count,     \* tool._call_count of the registered tools
    success_count,  \* tool._success_count of the registered tools
    threads,        \* the threads that execute tools in parallel
    tools,          \* ToolRegistry.tools: the registered tool of each name
    categories      \* ToolRegistry.categories: the tool names of each category

vars == <<solver, WEBLLM_MODE, pc, attempt, llm_calls, messages, response, result,
          learned_patterns, trace, tool_call, return_value, tool_calls, passed_args,
          memories, learned_in, acting, call_data, call_count, success_count, threads,
          tools, categories>>

\* the variables of several sessions side by side
session_vars == <<memories, learned_in, acting>>
payload_vars == <<call_data>>

\* the variables of the tool registry
registry_vars == <<call_count, success_count, threads, tools, categories>>

\* the variables that only the direct calls of v2 methods change
agent_vars == <<tool_call, return_value, tool_calls, passed_args>>

(***************************************************************************)
(* Bounds.  The loops of solve_multi_pass / solve_single_pass are          *)
(* `while True`; MaxIter is the number of loop iterations that are         *)
(* recorded.                                                               *)
(***************************************************************************)
MaxIter == 4

\* The number of loop iterations of a session whose turns range over every
\* text (TextSpec)
MaxTextIter == 2

\* max_attempts of MultiPassAgent.execute
max_attempts == 10

Solvers == {"multi", "single", "v2multi", "v2single"}
AppSolvers == {"multi", "single"}
Modes == {"hybrid", "server", "webllm", "other"}

\* (variant: a client exists in every mode)
client_always == TRUE

\* `client` is created only when WEBLLM_MODE is hybrid or server
client == WEBLLM_MODE \in {"hybrid", "server"}

NoMetrics == -1

(***************************************************************************)
(* The text of a model turn is a sequence of pieces:                       *)
(*   "w" free text, "M" the marker TOOL_CALL:, "J" a complete JSON object, *)
(*   "V" a complete JSON value that is no object, "P" a JSON object cut    *)
(*   short (an incomplete payload).                                        *)
(***************************************************************************)
Pieces == {"w", "M", "J", "V", "P"}

MaxTextLen == 3

Texts == UNION {[1..n -> Pieces] : n \in 0..MaxTextLen}

\* `"TOOL_CALL:" in response_text`
HasMarker(text) == \E i \in 1..Len(text) : text[i] = "M"

\* response_text.split("TOOL_CALL:", 1)[1]: the text after the first marker
AfterMarker(text) ==
    LET i == CHOOSE k \in 1..Len(text) :
                 text[k] = "M" /\ \A j \in 1..(k - 1) : text[j] # "M"
    IN  SubSeq(text, i + 1, Len(text))

\* (variant: a parser that reads the first JSON value and ignores the rest,
\*  closing a value that was cut short)
json_loads_lenient(payload) ==
    IF payload = <<>> \/ payload[1] \in {"w", "M"} THEN "invalid"
    ELSE IF payload[1] = "V" THEN "nonobject"
    ELSE "object"

\* json.loads(payload): the whole text must be one JSON value
json_loads(payload) ==
    IF payload = <<"J">> THEN "object"
    ELSE IF payload = <<"V">> THEN "nonobject"
    ELSE "invalid"

(***************************************************************************)
(* A model turn, by what the solver's parsing makes of it.                 *)
(*   marker  : "TOOL_CALL:" in response_text                               *)
(*   payload : outcome of json.loads on the text after the first marker:   *)
(*             "invalid" (JSONDecodeError), "nonobject" (valid JSON that   *)
(*             is not an object), "object"; "nocontent" is a turn whose    *)
(*             message content is None, on which the marker test raises    *)
(*   name    : the object's name: "known" (in TOOL_REGISTRY), "unknown"    *)
(*             (a string not registered), "absent" (no name key),          *)
(*             "unhashable" (a list or an object)                          *)
(*   argsOk  : the args bind to the tool function's parameters             *)
(*   dataOk  : the tool finds what the args ask for                        *)
(*   text    : the pieces of response_text                                 *)
(***************************************************************************)
Turn(m, p, n, a, d) ==
    [marker |-> m, payload |-> p, name |-> n, argsOk |-> a, dataOk |-> d, text |-> <<>>]

\* the turn with text `text`, whose JSON object (if one is parsed) has the
\* name n and args described by a, d
TurnOf(text, n, a, d) ==
    LET m == HasMarker(text)
        p == IF m THEN json_loads(AfterMarker(text)) ELSE "none"
    IN  [marker |-> m, payload |-> p,
         name |-> IF p = "object" THEN n ELSE "none",
         argsOk |-> p = "object" /\ a,
         dataOk |-> p = "object" /\ d,
         text |-> text]

NoTurn == Turn(FALSE, "none", "none", FALSE, FALSE)

\* what a JSON object payload can hold: <<name, argsOk, dataOk>>
Calls ==
    { <<"unhashable", FALSE, FALSE>>, <<"unknown", FALSE, FALSE>>,
      <<"absent", FALSE, FALSE>>, <<"known", FALSE, FALSE>>,
      <<"known", TRUE, FALSE>>, <<"known", TRUE, TRUE>> }

TurnsOf(texts) ==
    {Turn(FALSE, "nocontent", "none", FALSE, FALSE)}
        \cup {TurnOf(t, c[1], c[2], c[3]) : t \in texts, c \in Calls}

\* every turn with a text of at most MaxTextLen pieces
TextResponses == TurnsOf(Texts)

\* one text for each way the parsing can go: no marker, a payload cut
\* short, a payload that is no object, an object
Responses == TurnsOf({<<"w">>, <<"M", "P">>, <<"M", "V">>, <<"w", "M", "J">>})

\* Texts that the code searches (tool names, context keys, hints) are
\* sequences of characters; NoText is an absent (None) or empty text.
NoText == <<>>

\* t occurs in s (Python's `t in s` on strings)
IsSubSeq(t, s) ==
    \E i \in 0..(Len(s) - Len(t)) : \A j \in 1..Len(t) : s[i + j] = t[j]

\* Tool results, as far as the solver looks at them
NoResult == [ok |-> FALSE, hint |-> NoText, raised |-> FALSE]

\* The names of the tools of TOOL_REGISTRY
TOOL_REGISTRY ==
    {<<"sql", "_query">>, <<"web_search">>, <<"analyze_data">>, <<"solve_equation">>}

\* call.get("name"), as the f-strings of run_tool print it
ToolName(n) ==
    IF n = "known" THEN <<"sql", "_query">>
    ELSE IF n = "unknown" THEN <<"foo">>
    ELSE <<"None">>

\* run_tool(call): the result, or an exception escaping it
run_tool(call) ==
    IF call.name = "unhashable"
      THEN \* `tool_name not in TOOL_REGISTRY` hashes the name: TypeError
           [ok |-> FALSE, hint |-> NoText, raised |-> TRUE]
    ELSE IF ToolName(call.name) \notin TOOL_REGISTRY
      THEN [ok |-> FALSE,
            hint |-> <<"Tool '">> \o ToolName(call.name) \o <<"' not found.">>,
            raised |-> FALSE]
    ELSE IF ~call.argsOk
      THEN [ok |-> FALSE,
            hint |-> <<"Invalid arguments for tool '">> \o ToolName(call.name)
                         \o <<"': ", "TypeError">>,
            raised |-> FALSE]
    ELSE [ok |-> call.dataOk, hint |-> NoText, raised |-> FALSE]

\* (variant: any truthy ok flag verifies)
verify_truthy(r) ==
    /\ ("type" \in DOMAIN r => r.type = "dict")
    /\ "ok" \in DOMAIN r
    /\ r.ok

\* V.verify(result): isinstance(result, dict) and result.get("ok", False) is True.
\* A result is a dict with a bool under "ok" unless its fields say otherwise:
\* type is the type of a value that is no dict, oktype the type of the
\* value under "ok" (whose truth is ok) when it is no bool; a dict without
\* the key has no ok field.
verify(r) ==
    /\ ("type" \in DOMAIN r => r.type = "dict")
    /\ "ok" \in DOMAIN r
    /\ ("oktype" \in DOMAIN r => r.oktype = "bool")
    /\ r.ok

(***************************************************************************)
(* Log entries.                                                            *)
(***************************************************************************)
\* an event: its phase, its metrics["llm_calls"] (NoMetrics: the event has
\* no metrics key), its message (NoText: it has none)
Ev(phase, m) ==
    [kind |-> "event", phase |-> phase, calls |-> m, ok |-> FALSE, message |-> NoText,
     answer |-> NoText]
\* {"phase": "success", "answer": answer, "metrics": metrics}
Success(m, answer) == [Ev("success", m) EXCEPT !.answer = answer]
\* the content of the final-answer completion
final_answer == <<"final answer">>
\* the messages of the error events of the entry checks
WebLLMOnly == <<"Server-side inference disabled. Please use ", "WebLLM mode", " in the browser.">>
NoClient == <<"vLLM client not initialized.", " Check server configuration.">>
\* {"phase": "error", "message": message}
ErrorEv(message) == [Ev("error", NoMetrics) EXCEPT !.message = message]
\* a tool_result event; ok is its debug.verified
EvResult(m, v) == [Ev("tool_result", m) EXCEPT !.ok = v]
\* a request to the provider (which: "loop" or "final"); ok: it returned;
\* sent: the `messages` it was made with
\* (variant: each request is sent the seed of the history only)
ReqSeedOnly(which, returned) ==
    [kind |-> "request", phase |-> which, calls |-> NoMetrics, ok |-> returned,
     sent |-> SubSeq(messages, 1, 2)]

Req(which, returned) ==
    [kind |-> "request", phase |-> which, calls |-> NoMetrics, ok |-> returned,
     sent |-> messages]
\* a call of T.run_tool; ok: it returned
Run(returned) == [kind |-> "run_tool", phase |-> "run_tool", calls |-> NoMetrics, ok |-> returned]

\* A message: its role, and of its content what the code reads back
\* (a tool result's ok and hint)
Msg(role, text) == [role |-> role, text |-> text, ok |-> FALSE, hint |-> NoText]

\* (variant: every strategy sends the bare prompt)
UserContentPlain(s) == <<"prompt">>

\* the content of the user message a solver starts with: solve_single_pass
\* sends f"{tool_signature}\n\nUser Prompt: {prompt}", the others the prompt
UserContent(s) ==
    IF s = "single" THEN <<"TOOL_SIGNATURE: ", "signature", "\n\nUser Prompt: ", "prompt">>
    ELSE <<"prompt">>

\* the user message of solver s; text holds the content
UserMsg(s) == [role |-> "user", text |-> UserContent(s), ok |-> FALSE, hint |-> NoText]
\* (variant: the result is stored as an assistant message)
ToolMsgAsAssistant(r) == [role |-> "assistant", text |-> "result", ok |-> r.ok, hint |-> r.hint]

ToolMsg(r) == [role |-> "tool", text |-> "result", ok |-> r.ok, hint |-> r.hint]

\* A ToolCall: its name and its args as Python prints them (both texts)
ToolCall(name, args) == [name |-> name, args |-> args]
NoCall == ToolCall(NoText, NoText)

\* No payload parsed yet: an empty dict
NoPayload == [k \in {} |-> NoText]

\* The sessions that run side by side, and the tools of the v2 registry
Sessions == {1, 2}

Tools == {<<"sql", "_query">>, <<"web_search">>}

Threads == {1, 2}

EmptyMemory == [messages |-> <<>>, learned_patterns |-> <<>>]

\* ConversationMemory.__init__ of every agent
NoSessions ==
    /\ memories = [s \in Sessions |-> EmptyMemory]
    /\ learned_in = {}
    /\ acting = 0
    /\ call_data = NoPayload

\* A thread that is not executing a tool.  tool, success: the tool it is
\* executing and the outcome record_execution is called with; seen: the
\* counter value it has loaded; runs, wins: how many executions, and
\* successful ones, of each tool it has completed.
IdleThread ==
    [pc |-> "idle", tool |-> NoText, success |-> FALSE, seen |-> 0,
     runs |-> [t \in Tools |-> 0], wins |-> [t \in Tools |-> 0]]

\* a tool object: its name, its metadata.category, and id, which tells two
\* objects of one name and category apart
Tool(name, category, id) == [name |-> name, category |-> category, id |-> id]

\* the registry after register_tool(tool)
register_tool(registry, tool) ==
    LET listed == IF tool.category \in DOMAIN registry.categories
                    THEN registry.categories[tool.category] ELSE <<>>
        names == IF \E i \in 1..Len(listed) : listed[i] = tool.name
                   THEN listed ELSE Append(listed, tool.name)
    IN  [tools |-> [n \in DOMAIN registry.tools \cup {tool.name} |->
                       IF n = tool.name THEN tool ELSE registry.tools[n]],
         categories |-> [c \in DOMAIN registry.categories \cup {tool.category} |->
                            IF c = tool.category THEN names ELSE registry.categories[c]]]

\* an empty registry with the two default tools registered
DefaultRegistry ==
    register_tool(
        register_tool([tools |-> [n \in {} |-> NoText], categories |-> [c \in {} |-> <<>>]],
                      Tool(<<"sql", "_query">>, "database", 1)),
        Tool(<<"web_search">>, "web_search", 2))

\* ToolRegistry.__init__: the default tools, never called
NewRegistry ==
    /\ call_count = [t \in Tools |-> 0]
    /\ success_count = [t \in Tools |-> 0]
    /\ threads = [t \in Threads |-> IdleThread]
    /\ tools = DefaultRegistry.tools
    /\ categories = DefaultRegistry.categories

\* Beyond MaxIter iterations the session goes on but is no longer recorded
Recorded(a) == a <= MaxIter
Keep(a, new, old) == IF Recorded(a) THEN new ELSE old

TypeOK ==
    /\ solver \in Solvers
    /\ WEBLLM_MODE \in Modes
    /\ pc \in {"start", "loop", "invoke", "parse", "run", "verify", "final",
               "v2_loop", "v2_learn", "v2_final", "done", "raised",
               "client", "added", "extracted", "recorded", "asked", "listed", "executed",
               "parsed", "standardized", "returned", "verified", "hinted", "registered"}
    /\ attempt \in 0..(MaxIter + 1)
    /\ llm_calls \in 0..MaxIter
    /\ response \in TextResponses \cup {NoTurn}
    /\ "ok" \in DOMAIN result => result.ok \in BOOLEAN
    /\ result.raised \in BOOLEAN

Init ==
    /\ solver \in Solvers
    /\ WEBLLM_MODE \in Modes
    /\ pc = "start"
    /\ attempt = 0
    /\ llm_calls = 0
    /\ messages = <<>>
    /\ response = NoTurn
    /\ result = NoResult
    /\ learned_patterns = <<>>
    /\ trace = <<>>
    /\ tool_call = NoCall
    /\ return_value = 0
    /\ tool_calls = 0
    /\ passed_args = NoText
    /\ NoSessions
    /\ NewRegistry

(***************************************************************************)
(* v2 memory, as far as the v2 generators read it.                         *)
(***************************************************************************)
\* ConversationMemory.get_relevant_patterns; every stored confidence is the
\* same constant, so the stable sort keeps insertion order
RelevantIn(patterns, name) ==
    SelectSeq(patterns, LAMBDA p : p.pattern_type = "hint" /\ IsSubSeq(name, p.context))

get_relevant_patterns(name) == RelevantIn(learned_patterns, name)

\* json.loads(message.content) succeeds; the content "plain" is no JSON
IsJson(m) == m.text # "plain"

\* ConversationMemory.get_last_tool_result: index of the last tool message
\* whose content is JSON (the others are skipped by `continue`), 0 if none
LastToolIndex ==
    IF \E i \in 1..Len(messages) : messages[i].role = "tool" /\ IsJson(messages[i])
      THEN CHOOSE i \in 1..Len(messages) :
             /\ messages[i].role = "tool" /\ IsJson(messages[i])
             /\ \A j \in (i + 1)..Len(messages) :
                    ~(messages[j].role = "tool" /\ IsJson(messages[j]))
      ELSE 0

\* BaseAgent.should_apply_learning: TRUE when an alert string is returned
should_apply_learning(name) ==
    LET patterns == get_relevant_patterns(name)
        last == LastToolIndex
    IN  /\ Len(patterns) > 0
        /\ last > 0
        /\ ~messages[last].ok
        /\ messages[last].hint # NoText
        /\ \E k \in 1..Len(patterns) : IsSubSeq(patterns[k].solution, messages[last].hint)

(***************************************************************************)
(* solve_multi_pass / solve_single_pass                                    *)
(***************************************************************************)
\* (variant: a flag set by the first request instead of a counter)
CountInvocationOnce(c) == IF c = 0 THEN 1 ELSE c

\* metrics["llm_calls"] += 1 after a loop request returned
CountInvocation(c) == c + 1

\* (variant: the final-answer request counted like a loop request)
FinalAnswerCounted(c) == c + 1

\* the final-answer request leaves metrics["llm_calls"] as it is
FinalAnswerCalls(c) == c

\* (variant: no solver announces the final-answer request)
ProposesBeforeFinalNever(s) == FALSE

\* only solve_multi_pass yields a propose event before the final-answer request
ProposesBeforeFinal(s) == s = "multi"

\* the phase yielded after a tool result that fails verification
RetryPhase(s) == IF s = "multi" THEN "failure" ELSE "patch"

\* (variant: a missing `return` after the terminal yield)
AfterTerminalContinues == "loop"

\* the generator's position after it yielded success or error: it returns
AfterTerminal == "done"

\* (variant: the parse error is reported by the event only)
AfterParseErrorDropped(msgs) == msgs

\* messages.append({"role": "tool", "content": json.dumps({"error": "Invalid tool call format"})})
AfterParseError(msgs) == Append(msgs, Msg("tool", "invalid_format"))

\* Entry of a generator up to the first yield or the top of its loop
Start ==
    /\ pc = "start"
    /\ IF solver \in AppSolvers /\ (WEBLLM_MODE = "webllm" \/ ~client)
         THEN /\ trace' = Append(trace, ErrorEv(IF WEBLLM_MODE = "webllm" THEN WebLLMOnly
                                                     ELSE NoClient))
              /\ pc' = AfterTerminal
              /\ UNCHANGED messages
         ELSE /\ messages' = <<Msg("system", "system_prompt"), UserMsg(solver)>>
              /\ pc' = IF solver \in AppSolvers THEN "loop" ELSE "v2_loop"
              /\ UNCHANGED trace
    /\ UNCHANGED <<solver, WEBLLM_MODE, attempt, llm_calls, response, result, learned_patterns,
                 agent_vars, session_vars, registry_vars, payload_vars>>

\* Top of `while True`: attempt += 1, yield propose
ProposeStep(bounded) ==
    /\ pc = "loop"
    /\ bounded => attempt < MaxIter
    /\ attempt' = IF Recorded(attempt) THEN attempt + 1 ELSE attempt
    /\ trace' = Keep(attempt', Append(trace, Ev("propose", llm_calls)), trace)
    /\ pc' = "invoke"
    /\ UNCHANGED <<solver, WEBLLM_MODE, llm_calls, messages, response, result, learned_patterns,
                 agent_vars, session_vars, registry_vars, payload_vars>>

Propose == ProposeStep(TRUE)

\* The loop's request to the provider, up to the next yield
InvokeFrom(turns) ==
    /\ pc = "invoke"
    /\ \/ \* openai.APIError: yield error, return
          /\ trace' = Keep(attempt, trace \o <<Req("loop", FALSE), Ev("error", NoMetrics)>>, trace)
          /\ pc' = AfterTerminal
          /\ UNCHANGED <<llm_calls, messages, response>>
       \/ \E r \in turns :
          /\ llm_calls' = Keep(attempt, CountInvocation(llm_calls), llm_calls)
          /\ messages' = Keep(attempt, Append(messages, Msg("assistant", "response")), messages)
          /\ response' = r
          /\ trace' = Keep(attempt, trace \o <<Req("loop", TRUE), Ev("model_response", llm_calls')>>, trace)
          /\ pc' = "parse"
    /\ UNCHANGED <<solver, WEBLLM_MODE, attempt, result, learned_patterns,
                 agent_vars, session_vars, registry_vars, payload_vars>>

Invoke == InvokeFrom(Responses)

\* From the model response to the next yield (success, failure or execute)
Parse ==
    /\ pc = "parse"
    /\ IF response.payload = "nocontent"
         THEN \* `"TOOL_CALL:" in None`: TypeError, outside every handler
              /\ pc' = "raised"
              /\ UNCHANGED <<trace, messages>>
       ELSE IF ~response.marker
         THEN /\ trace' = Keep(attempt, Append(trace, Success(llm_calls, response.text)), trace)
              /\ pc' = AfterTerminal
              /\ UNCHANGED messages
       ELSE IF response.payload = "invalid"
         THEN \* json.JSONDecodeError: yield failure, append the error message
              /\ trace' = Keep(attempt, Append(trace, Ev("failure", llm_calls)), trace)
              /\ messages' = Keep(attempt, AfterParseError(messages), messages)
              /\ pc' = "loop"
       ELSE IF response.payload = "nonobject"
         THEN \* get_tool_args: AttributeError, which no handler catches
              /\ pc' = "raised"
              /\ UNCHANGED <<trace, messages>>
         ELSE /\ trace' = Keep(attempt, Append(trace, Ev("execute", llm_calls)), trace)
              /\ pc' = "run"
              /\ UNCHANGED messages
    /\ UNCHANGED <<solver, WEBLLM_MODE, attempt, llm_calls, response, result, learned_patterns,
                 agent_vars, session_vars, registry_vars, payload_vars>>

\* T.run_tool(call_data), then yield tool_result
RunTool ==
    /\ pc = "run"
    /\ LET r == run_tool(response) IN
         IF r.raised
           THEN /\ trace' = Keep(attempt, Append(trace, Run(FALSE)), trace)
                /\ pc' = "raised"
                /\ UNCHANGED result
           ELSE /\ trace' = Keep(attempt, trace \o <<Run(TRUE), EvResult(llm_calls, verify(r))>>, trace)
                /\ result' = r
                /\ pc' = "verify"
    /\ UNCHANGED <<solver, WEBLLM_MODE, attempt, llm_calls, messages, response, learned_patterns,
                 agent_vars, session_vars, registry_vars, payload_vars>>

\* (variant: the tool result is only yielded, not stored)
AfterToolResultDropped(msgs, r) == msgs

\* messages.append({"role": "tool", "content": json.dumps(result)})
AfterToolResult(msgs, r) == Append(msgs, ToolMsg(r))

\* Append the tool message, then branch on V.verify(result)
Verify ==
    /\ pc = "verify"
    /\ messages' = Keep(attempt, AfterToolResult(messages, result), messages)
    /\ IF verify(result)
         THEN /\ trace' = IF ProposesBeforeFinal(solver)
                            THEN Keep(attempt, Append(trace, Ev("propose", llm_calls)), trace)
                            ELSE trace
              /\ pc' = "final"
         ELSE /\ trace' = Keep(attempt, Append(trace, Ev(RetryPhase(solver), llm_calls)), trace)
              /\ pc' = "loop"
    /\ UNCHANGED <<solver, WEBLLM_MODE, attempt, llm_calls, response, result, learned_patterns,
                 agent_vars, session_vars, registry_vars, payload_vars>>

\* The final-answer request; it is made outside the APIError handler
Final ==
    /\ pc = "final"
    /\ \/ /\ trace' = Keep(attempt, Append(trace, Req("final", FALSE)), trace)
          /\ pc' = "raised"
          /\ UNCHANGED llm_calls
       \/ /\ llm_calls' = FinalAnswerCalls(llm_calls)
          /\ trace' = Keep(attempt, trace \o <<Req("final", TRUE), Success(llm_calls', final_answer)>>, trace)
          /\ pc' = AfterTerminal
    /\ UNCHANGED <<solver, WEBLLM_MODE, attempt, messages, response, result, learned_patterns,
                 agent_vars, session_vars, registry_vars, payload_vars>>

(***************************************************************************)
(* MultiPassAgent.execute / SinglePassAgent.execute                        *)
(***************************************************************************)
\* `while attempt < max_attempts`: attempt += 1, yield THINK
\* (SinglePassAgent.execute yields THINK once, without a loop)
V2Think ==
    /\ pc = "v2_loop"
    /\ IF solver = "v2single"
         THEN /\ trace' = Append(trace, Ev("think", 0))
              /\ pc' = "v2_final"
              /\ UNCHANGED attempt
       ELSE IF attempt < max_attempts
         THEN /\ attempt' = attempt + 1
              /\ trace' = Append(trace, Ev("think", 0))
              /\ pc' = "v2_learn"
         ELSE /\ pc' = "v2_final"
              /\ UNCHANGED <<attempt, trace>>
    /\ UNCHANGED <<solver, WEBLLM_MODE, llm_calls, messages, response, result, learned_patterns,
                 agent_vars, session_vars, registry_vars, payload_vars>>

\* The learning check of the loop body, then `break`
V2Learn ==
    /\ pc = "v2_learn"
    /\ trace' = IF attempt > 1 /\ should_apply_learning(<<"a", "n", "y">>)
                  THEN Append(trace, Ev("learn", 0))
                  ELSE trace
    /\ pc' = "v2_final"
    /\ UNCHANGED <<solver, WEBLLM_MODE, attempt, llm_calls, messages, response, result, learned_patterns,
                 agent_vars, session_vars, registry_vars, payload_vars>>

\* yield SUCCESS, return
V2Final ==
    /\ pc = "v2_final"
    /\ trace' = Append(trace, Ev("success", 0))
    /\ pc' = AfterTerminal
    /\ UNCHANGED <<solver, WEBLLM_MODE, attempt, llm_calls, messages, response, result, learned_patterns,
                 agent_vars, session_vars, registry_vars, payload_vars>>

Next ==
    \/ Start
    \/ Propose
    \/ Invoke
    \/ Parse
    \/ RunTool
    \/ Verify
    \/ Final
    \/ V2Think
    \/ V2Learn
    \/ V2Final

Spec == Init /\ [][Next]_vars

(***************************************************************************)
(* The same generators with the loop left unbounded, as `while True` is:   *)
(* iterations after the MaxIter-th run but are not recorded.  A generator  *)
(* that is resumed takes its next step (each request and each tool call    *)
(* returns or raises).                                                     *)
(***************************************************************************)
ProposeUnbounded == ProposeStep(FALSE)

NextUnbounded ==
    \/ Start
    \/ ProposeUnbounded
    \/ Invoke
    \/ Parse
    \/ RunTool
    \/ Verify
    \/ Final
    \/ V2Think
    \/ V2Learn
    \/ V2Final

LiveSpec == Init /\ [][NextUnbounded]_vars /\ WF_vars(NextUnbounded)

(***************************************************************************)
(* The same generators in sessions of at most MaxTextIter iterations,      *)
(* whose model turns range over every text of at most MaxTextLen pieces.   *)
(***************************************************************************)
ProposeText == attempt < MaxTextIter /\ ProposeStep(TRUE)

InvokeText == InvokeFrom(TextResponses)

NextText ==
    \/ Start
    \/ ProposeText
    \/ InvokeText
    \/ Parse
    \/ RunTool
    \/ Verify
    \/ Final
    \/ V2Think
    \/ V2Learn
    \/ V2Final

\* "server" configures the same client as "hybrid" and is left out
InitText == Init /\ WEBLLM_MODE # "server"

TextSpec == InitText /\ [][NextText]_vars

(***************************************************************************)
(* ConversationMemory and the learning methods of BaseAgent, called by a   *)
(* client of a v2 agent in any order (as the repository's tests do).       *)
(***************************************************************************)
\* The client stops adding once the memory holds MaxMemory messages,
\* patterns and pattern uses
MaxMemory == 4

\* confidence=0.8 of a new pattern, in tenths
InitialConfidence == 8

\* the hints of SQLQueryTool: common_errors["conversions"], learning_hints["conversions"]
Hints ==
    { <<"The column 'conversions' doesn't exist. ", "Did you mean 'convs'?">>,
      <<"Did you mean 'convs'?">> }

\* the calls a client passes
ToolCalls ==
    { ToolCall(<<"sql", "_query">>, <<"{'column': '", "conversions", "'}">>),
      ToolCall(<<"sql", "_query">>, <<"{'column': '", "convs", "'}">>),
      ToolCall(<<"web_search">>, <<"{'query': '", "sql", "_query", " tutorial'}">>) }

\* a ToolResult: success and hint
ToolResult(success, hint) == [ok |-> success, hint |-> hint, raised |-> FALSE]

ToolResults ==
    {ToolResult(TRUE, NoText), ToolResult(FALSE, NoText),
     ToolResult(TRUE, <<"Did you mean 'convs'?">>)}
        \cup {ToolResult(FALSE, h) : h \in Hints}

\* the messages a client adds: a user turn, a tool message whose content is
\* no JSON, a failed tool result
MemoryMessages ==
    {Msg("user", "prompt"), Msg("tool", "plain"),
     ToolMsg(ToolResult(FALSE, <<"Did you mean 'convs'?">>))}

\* f"Tool '{tool_call.name}' with args {tool_call.args}"
PatternContext(call) == <<"Tool '">> \o call.name \o <<"' with args ">> \o call.args

\* (variant: only a successful result yields no pattern)
NoPatternOnSuccess(r) == r.ok

\* `if tool_result.success or not tool_result.hint: return None`
NoPattern(r) == r.ok \/ r.hint = NoText

LearningPattern(call, r) ==
    [pattern_type |-> "hint", context |-> PatternContext(call), solution |-> r.hint,
     confidence |-> InitialConfidence, usage_count |-> 0]

\* index of the first stored pattern with this context (0 if there is none)
ExistingPattern(patterns, context) ==
    IF \E k \in 1..Len(patterns) : patterns[k].context = context
      THEN CHOOSE k \in 1..Len(patterns) :
             /\ patterns[k].context = context
             /\ \A j \in 1..(k - 1) : patterns[j].context # context
      ELSE 0

\* (variant: a repeated failure leaves the stored pattern as it is)
UsedAgainNot(p) == p

\* existing.usage_count += 1
UsedAgain(p) == [p EXCEPT !.usage_count = @ + 1]

\* ConversationMemory.extract_learning_pattern: <<the pattern list after the
\* call, the index of the pattern returned (0 for None)>>
extract_learning_pattern(patterns, call, r) ==
    IF NoPattern(r) THEN <<patterns, 0>>
    ELSE LET k == ExistingPattern(patterns, PatternContext(call))
         IN  IF k > 0
               THEN <<[patterns EXCEPT ![k] = UsedAgain(@)], k>>
               ELSE <<Append(patterns, LearningPattern(call, r)), Len(patterns) + 1>>

RECURSIVE Uses(_)
Uses(patterns) ==
    IF patterns = <<>> THEN 0 ELSE Head(patterns).usage_count + Uses(Tail(patterns))

MemorySize == Len(messages) + Len(learned_patterns) + Uses(learned_patterns)

\* the client is between two calls
AtClient == pc \in {"client", "added", "extracted", "recorded", "asked", "listed"}

\* (variant: the hint is written into the call's args)
ArgsPatched(call, hint) == IF hint = NoText THEN call.args ELSE hint

\* tool_call.args after a method that was given the call and met the hint:
\* the methods read tool_call.args and never assign to it
ArgsAfter(call, hint) == call.args

\* the ToolCall object after such a method
CallAfter(call, hint) == ToolCall(call.name, ArgsAfter(call, hint))

InitMemory ==
    /\ solver = "v2multi"
    /\ WEBLLM_MODE = "hybrid"
    /\ pc = "client"
    /\ attempt = 0
    /\ llm_calls = 0
    /\ messages = <<>>
    /\ response = NoTurn
    /\ result = NoResult
    /\ learned_patterns = <<>>
    /\ trace = <<>>
    /\ tool_call = NoCall
    /\ return_value = 0
    /\ tool_calls = 0
    /\ passed_args = NoText
    /\ NoSessions
    /\ NewRegistry

\* (variant: a memory that keeps the last two messages only)
add_message_window(msgs, m) ==
    IF Len(msgs) >= 2 THEN Append(Tail(msgs), m) ELSE Append(msgs, m)

\* self.messages.append(message)
add_message(msgs, m) == Append(msgs, m)

\* memory.add_message(message)
AddMessage ==
    /\ AtClient
    /\ MemorySize + 1 <= MaxMemory
    /\ \E m \in MemoryMessages : messages' = add_message(messages, m)
    /\ return_value' = 0
    /\ pc' = "added"
    /\ UNCHANGED <<solver, WEBLLM_MODE, attempt, llm_calls, response, result,
                   learned_patterns, trace, tool_call, tool_calls, passed_args,
                   session_vars, registry_vars, payload_vars>>

\* memory.extract_learning_pattern(tool_call, tool_result)
ExtractLearningPattern ==
    /\ AtClient
    /\ MemorySize + 1 <= MaxMemory
    /\ \E c \in ToolCalls, r \in ToolResults :
         LET out == extract_learning_pattern(learned_patterns, c, r)
         IN  /\ tool_call' = CallAfter(c, r.hint)
             /\ passed_args' = c.args
             /\ result' = r
             /\ learned_patterns' = out[1]
             /\ return_value' = out[2]
    /\ pc' = "extracted"
    /\ UNCHANGED <<solver, WEBLLM_MODE, attempt, llm_calls, messages, response,
                   trace, tool_calls,
                   session_vars, registry_vars, payload_vars>>

\* agent.record_tool_interaction(tool_call, tool_result)
RecordToolInteraction ==
    /\ AtClient
    /\ MemorySize + 3 <= MaxMemory
    /\ \E c \in ToolCalls, r \in ToolResults :
         /\ tool_call' = CallAfter(c, r.hint)
         /\ passed_args' = c.args
         /\ result' = r
         /\ tool_calls' = tool_calls + 1
         /\ messages' = add_message(add_message(messages, Msg("assistant", "tool_call")),
                                     ToolMsg(r))
         /\ learned_patterns' =
                IF ~r.ok THEN extract_learning_pattern(learned_patterns, c, r)[1]
                ELSE learned_patterns
    /\ return_value' = 0
    /\ pc' = "recorded"
    /\ UNCHANGED <<solver, WEBLLM_MODE, attempt, llm_calls, response, trace,
                   session_vars, registry_vars, payload_vars>>

\* the hint of the last tool result, which should_apply_learning reads
LastHint == IF LastToolIndex > 0 THEN messages[LastToolIndex].hint ELSE NoText

\* agent.should_apply_learning(tool_call): return_value 1 is the alert string
ShouldApplyLearning ==
    /\ AtClient
    /\ \E c \in ToolCalls :
         /\ tool_call' = CallAfter(c, LastHint)
         /\ passed_args' = c.args
         /\ return_value' = IF should_apply_learning(c.name) THEN 1 ELSE 0
    /\ pc' = "asked"
    /\ UNCHANGED <<solver, WEBLLM_MODE, attempt, llm_calls, messages, response, result,
                   learned_patterns, trace, tool_calls, session_vars, registry_vars, payload_vars>>

\* memory.get_relevant_patterns(tool_call): return_value is the length of
\* the list returned
GetRelevantPatterns ==
    /\ AtClient
    /\ \E c \in ToolCalls :
         LET relevant == get_relevant_patterns(c.name)
         IN  /\ tool_call' = CallAfter(c, IF relevant = <<>> THEN NoText
                                                             ELSE relevant[1].solution)
             /\ passed_args' = c.args
             /\ return_value' = Len(relevant)
    /\ pc' = "listed"
    /\ UNCHANGED <<solver, WEBLLM_MODE, attempt, llm_calls, messages, response, result,
                   learned_patterns, trace, tool_calls, session_vars, registry_vars, payload_vars>>

NextMemory ==
    \/ AddMessage
    \/ ExtractLearningPattern
    \/ RecordToolInteraction
    \/ ShouldApplyLearning
    \/ GetRelevantPatterns

MemorySpec == InitMemory /\ [][NextMemory]_vars

(***************************************************************************)
(* Two sessions side by side: each is an agent with the memory its         *)
(* __init__ made (or a generator call with its local `messages`), and a    *)
(* client calls their methods in any interleaving.                         *)
(***************************************************************************)
\* (variant: one memory object behind every agent)
memory_shared(s) == 1

\* self.memory = ConversationMemory(self.session_id): the memory object of
\* session s is the one its __init__ created
memory_of(s) == s

\* size of the memory of session s
SizeOf(s) ==
    Len(memories[memory_of(s)].messages) + Len(memories[memory_of(s)].learned_patterns)
        + Uses(memories[memory_of(s)].learned_patterns)

\* agent.memory.add_message(message) in session s
SessionAddMessage ==
    /\ pc = "client"
    /\ \E s \in Sessions, m \in MemoryMessages :
         /\ SizeOf(1) + SizeOf(2) + 1 <= MaxMemory
         /\ memories' = [memories EXCEPT ![memory_of(s)].messages = add_message(@, m)]
         /\ acting' = s
    /\ UNCHANGED <<solver, WEBLLM_MODE, pc, attempt, llm_calls, messages, response, result,
                   learned_patterns, trace, agent_vars, learned_in, registry_vars, payload_vars>>

\* agent.memory.extract_learning_pattern(tool_call, tool_result) in session s
SessionExtract ==
    /\ pc = "client"
    /\ \E s \in Sessions, c \in ToolCalls, r \in ToolResults :
         /\ SizeOf(1) + SizeOf(2) + 1 <= MaxMemory
         /\ memories' = [memories EXCEPT ![memory_of(s)].learned_patterns =
                                            extract_learning_pattern(@, c, r)[1]]
         /\ learned_in' = IF NoPattern(r) THEN learned_in
                          ELSE learned_in \cup {<<s, PatternContext(c)>>}
         /\ acting' = s
    /\ UNCHANGED <<solver, WEBLLM_MODE, pc, attempt, llm_calls, messages, response, result,
                   learned_patterns, trace, agent_vars, registry_vars, payload_vars>>

\* agent.record_tool_interaction(tool_call, tool_result) in session s
SessionRecord ==
    /\ pc = "client"
    /\ \E s \in Sessions, c \in ToolCalls, r \in ToolResults :
         /\ SizeOf(1) + SizeOf(2) + 3 <= MaxMemory
         /\ memories' =
                [memories EXCEPT
                    ![memory_of(s)] =
                        [messages |->
                             add_message(add_message(@.messages, Msg("assistant", "tool_call")),
                                         ToolMsg(r)),
                         learned_patterns |->
                             IF ~r.ok THEN extract_learning_pattern(@.learned_patterns, c, r)[1]
                             ELSE @.learned_patterns]]
         /\ learned_in' = IF NoPattern(r) THEN learned_in
                          ELSE learned_in \cup {<<s, PatternContext(c)>>}
         /\ acting' = s
    /\ UNCHANGED <<solver, WEBLLM_MODE, pc, attempt, llm_calls, messages, response, result,
                   learned_patterns, trace, agent_vars, registry_vars, payload_vars>>

NextSessions ==
    \/ SessionAddMessage
    \/ SessionExtract
    \/ SessionRecord

TwoSessionSpec == InitMemory /\ [][NextSessions]_vars

(***************************************************************************)
(* V.verify called on values of every shape, next to the solvers.          *)
(***************************************************************************)
\* dicts whose "ok" is True/False, 1/0, "yes"/""; a dict without "ok"; a
\* list and None
VerifyInputs ==
    {[type |-> "dict", oktype |-> t, ok |-> b, hint |-> NoText, raised |-> FALSE] :
        t \in {"bool", "int", "str"}, b \in BOOLEAN}
      \cup {[type |-> t, hint |-> NoText, raised |-> FALSE] : t \in {"dict", "list", "NoneType"}}

\* V.verify(result) called by itself; return_value is 1 for True
VerifyCall ==
    /\ pc \in {"client", "verified"}
    /\ \E r \in VerifyInputs :
         /\ result' = r
         /\ return_value' = IF verify(r) THEN 1 ELSE 0
    /\ pc' = "verified"
    /\ UNCHANGED <<solver, WEBLLM_MODE, attempt, llm_calls, messages, response,
                   learned_patterns, trace, tool_call, tool_calls, passed_args,
                   session_vars, registry_vars, payload_vars>>

VerifySpec == (Init \/ InitMemory) /\ [][Next \/ VerifyCall]_vars

(***************************************************************************)
(* From a parsed payload to the tool function: `call_data =                *)
(* json.loads(...)`, `call_data["args"] = get_tool_args(call_data)`,       *)
(* `T.run_tool(call_data)`.  A dict is a function on its keys; the values  *)
(* of args and arguments are texts as Python prints them.                  *)
(***************************************************************************)
\* a key the payload does not have
Missing == <<"missing">>

ArgsValues ==
    { <<"{}">>, <<"{'column': '", "conversions", "'}">>, <<"{'column': '", "clicks", "'}">>,
      <<"None">> }

\* the JSON object with name n, and with args a and arguments g unless Missing
Dict(n, a, g) ==
    [k \in {"name"} \cup (IF a = Missing THEN {} ELSE {"args"})
                     \cup (IF g = Missing THEN {} ELSE {"arguments"}) |->
        IF k = "name" THEN n ELSE IF k = "args" THEN a ELSE g]

Payloads ==
    { Dict(n, a, g) : n \in {<<"sql", "_query">>, <<"foo">>},
                      a \in ArgsValues \cup {Missing}, g \in ArgsValues \cup {Missing} }

\* d.get(k, default)
Get(d, k, default) == IF k \in DOMAIN d THEN d[k] ELSE default

\* (variant: the arguments key is looked up first)
get_tool_args_arguments_first(d) == Get(d, "arguments", Get(d, "args", <<"{}">>))

\* call_data.get("args", call_data.get("arguments", {}))
get_tool_args(d) == Get(d, "args", Get(d, "arguments", <<"{}">>))

\* the call as run_tool judges it: is the name registered, do the args bind
\* to sql_query(column, table="analytics"), is the column in the table
CallOf(d) ==
    [name |-> IF Get(d, "name", <<"None">>) \in TOOL_REGISTRY THEN "known" ELSE "unknown",
     argsOk |-> Get(d, "args", <<"{}">>)[1] = "{'column': '",
     dataOk |-> Get(d, "args", <<"{}">>) = <<"{'column': '", "conversions", "'}">>]

\* json.loads returned the dict d
Loaded(d) ==
    [kind |-> "payload", phase |-> "payload", calls |-> NoMetrics, ok |-> TRUE, data |-> d]

\* call_data = json.loads(tool_call_str)
JsonLoads ==
    /\ pc = "client"
    /\ \E d \in Payloads :
         /\ call_data' = d
         /\ trace' = Append(trace, Loaded(d))
    /\ pc' = "parsed"
    /\ UNCHANGED <<solver, WEBLLM_MODE, attempt, llm_calls, messages, response, result,
                   learned_patterns, agent_vars, session_vars, registry_vars>>

\* call_data["args"] = get_tool_args(call_data); yield execute
Standardize ==
    /\ pc = "parsed"
    /\ call_data' = [k \in DOMAIN call_data \cup {"args"} |->
                        IF k = "args" THEN get_tool_args(call_data) ELSE call_data[k]]
    /\ trace' = Append(trace, Ev("execute", llm_calls))
    /\ pc' = "standardized"
    /\ UNCHANGED <<solver, WEBLLM_MODE, attempt, llm_calls, messages, response, result,
                   learned_patterns, agent_vars, session_vars, registry_vars>>

\* result = T.run_tool(call_data): passed_args are the keyword arguments the
\* tool function is called with
RunCall ==
    /\ pc = "standardized"
    /\ result' = run_tool(CallOf(call_data))
    /\ IF Get(call_data, "name", <<"None">>) \notin TOOL_REGISTRY
         THEN pc' = "returned" /\ UNCHANGED passed_args
         ELSE pc' = "executed" /\ passed_args' = Get(call_data, "args", <<"{}">>)
    /\ trace' = Append(trace, Run(TRUE))
    /\ UNCHANGED <<solver, WEBLLM_MODE, attempt, llm_calls, messages, response,
                   learned_patterns, tool_call, return_value, tool_calls, session_vars,
                   registry_vars, call_data>>

NextPayload ==
    \/ JsonLoads
    \/ Standardize
    \/ RunCall

PayloadSpec == InitMemory /\ [][NextPayload]_vars

(***************************************************************************)
(* The v2 tool registry: ToolRegistry.execute_tool on the default tools,   *)
(* called by a client that may pass the result to                          *)
(* BaseAgent.record_tool_interaction and run the agent's generator.        *)
(* Args are texts as Python prints them: <<"{'column': '", value..., "'}">>*)
(* is a map with one key, <<"{}">> the empty map, <<"[1]">> a JSON array.  *)
(***************************************************************************)
\* how many executions of tools are followed
MaxExecutions == 3

RegistryCalls ==
    { ToolCall(<<"sql", "_query">>, <<"{'column': '", "conversions", "'}">>),
      ToolCall(<<"sql", "_query">>, <<"{'column': '", "convs", "'}">>),
      ToolCall(<<"sql", "_query">>, <<"{'col': '", "convs", "'}">>),
      ToolCall(<<"sql", "_query">>, <<"[1]">>),
      ToolCall(<<"web_search">>, <<"{'query': '", "ai research", "'}">>),
      ToolCall(<<"nope">>, <<"{}">>) }

\* args is a dict
IsMapping(args) == args # <<"[1]">>

\* the value of the one key of args (nothing for the empty map)
ArgValue(args) == IF Len(args) < 3 THEN <<>> ELSE SubSeq(args, 2, Len(args) - 1)

\* str.lower()
Lower(text) ==
    [i \in 1..Len(text) |->
        CASE text[i] = "Column '" -> "column '"
          [] text[i] = "Column not found" -> "column not found"
          [] text[i] = "Conversions" -> "conversions"
          [] text[i] = "No results" -> "no results"
          [] OTHER -> text[i]]

\* metadata.common_errors of a tool, in the order of the dict: <<pattern, hint>>
common_errors(tool) ==
    IF tool = <<"sql", "_query">>
      THEN << << <<"column not found">>,
                 <<"Check if the column name is spelled correctly.">> >>,
              << <<"conversions">>,
                 <<"The column 'conversions' doesn't exist. ", "Did you mean 'convs'?">> >> >>
      ELSE << << <<"no results">>, <<"Try more specific search terms">> >> >>

\* metadata.learning_hints of a tool, in the order of the dict
learning_hints(tool) ==
    IF tool = <<"sql", "_query">>
      THEN << << <<"conversions">>, <<"Did you mean 'convs'?">> >>,
              << <<"conversion">>, <<"The correct column name is 'convs'">> >> >>
      ELSE << << <<"climate change">>, <<"Try searching for 'recent climate change data'">> >>,
              << <<"old data">>, <<"Add 'recent' or '2024'">> >> >>

\* the hint of the first pair whose pattern matches (None if there is none)
FirstHint(pairs, Matches(_)) ==
    LET hits == {k \in 1..Len(pairs) : Matches(pairs[k][1])}
    IN  IF hits = {} THEN NoText
        ELSE pairs[CHOOSE k \in hits : \A j \in hits : k <= j][2]

\* variant: the argument patterns are consulted before the error patterns
get_hint_for_error_args_first(tool, args, error) ==
    LET learned == FirstHint(learning_hints(tool),
                             LAMBDA p : IsSubSeq(p, Lower(ArgValue(args))))
    IN  IF IsMapping(args) /\ learned # NoText THEN [raised |-> FALSE, hint |-> learned]
        ELSE [raised |-> FALSE,
              hint |-> FirstHint(common_errors(tool),
                                 LAMBDA p : IsSubSeq(p, Lower(error)))]

\* tool.get_hint_for_error(args, error): the hint, or an exception
get_hint_for_error(tool, args, error) ==
    LET error_str == Lower(error)
        common == FirstHint(common_errors(tool), LAMBDA p : IsSubSeq(p, error_str))
    IN  IF common # NoText THEN [raised |-> FALSE, hint |-> common]
        ELSE IF ~IsMapping(args)
          THEN \* args.values(): AttributeError
               [raised |-> TRUE, hint |-> NoText]
        ELSE [raised |-> FALSE,
              hint |-> FirstHint(learning_hints(tool),
                                 LAMBDA p : IsSubSeq(p, Lower(ArgValue(args))))]

\* a result without a data key
Absent == -1

\* the dict execute_tool returns: ok, error, hint, data
Returned(ok, error, hint, data) ==
    [ok |-> ok, hint |-> hint, raised |-> FALSE, error |-> error, data |-> data]

\* What a call of tool.execute (or of execute_tool) did: raised, an
\* exception left it, with text error; recorded, the outcomes it passed to
\* record_execution; result, the dict it returned.
Raises(error) ==
    [raised |-> TRUE, error |-> error, recorded |-> <<>>,
     result |-> [ok |-> FALSE, hint |-> NoText, raised |-> TRUE, error |-> error,
                 data |-> Absent]]
Returns(recorded, dict) ==
    [raised |-> FALSE, error |-> NoText, recorded |-> recorded, result |-> dict]

\* SQLQueryTool.schema
schema == {<<"convs">>, <<"users">>, <<"revenue">>, <<"clicks">>, <<"impressions">>}

\* (variant: the sample data of every column is 0)
generate_sample_data_zero(column) == 0

\* SQLQueryTool._generate_sample_data(column)
generate_sample_data(column) ==
    IF column = <<"convs">> THEN 12345
    ELSE IF column = <<"users">> THEN 87650
    ELSE IF column = <<"revenue">> THEN 156789
    ELSE IF column = <<"clicks">> THEN 234567
    ELSE IF column = <<"impressions">> THEN 1234567
    ELSE 0

\* SQLQueryTool.execute(**args)
SQLExecute(args) ==
    IF ~IsMapping(args) THEN Raises(<<"argument after ** must be a mapping">>)
    ELSE IF args[1] # "{'column': '" THEN Raises(<<"execute() got an unexpected keyword argument">>)
    ELSE LET column == ArgValue(args)
             error_msg == <<"Column '">> \o column \o <<"' not found">>
         IN  IF column \notin schema
               THEN Returns(<<FALSE>>,
                            Returned(FALSE, error_msg,
                                     get_hint_for_error(<<"sql", "_query">>, args, error_msg).hint,
                                     Absent))
               ELSE Returns(<<TRUE>>,
                            Returned(TRUE, NoText, NoText, generate_sample_data(column)))

\* WebSearchTool.execute(**args); its data is a list of results, here 1
WebExecute(args) ==
    IF ~IsMapping(args) THEN Raises(<<"argument after ** must be a mapping">>)
    ELSE IF args[1] # "{'query': '" THEN Raises(<<"execute() got an unexpected keyword argument">>)
    ELSE LET query_lower == Lower(ArgValue(args))
         IN  IF IsSubSeq(<<"climate change">>, query_lower)
               THEN IF ~IsSubSeq(<<"recent">>, query_lower)
                      THEN Returns(<<FALSE>>,
                                   Returned(FALSE, NoText,
                                            <<"Try searching for 'recent climate change data'">>,
                                            Absent))
                      ELSE Returns(<<TRUE>>, Returned(TRUE, NoText, NoText, 1))
             ELSE IF IsSubSeq(<<"ai research">>, query_lower)
               THEN Returns(<<TRUE>>, Returned(TRUE, NoText, NoText, 1))
             ELSE Returns(<<FALSE>>,
                          Returned(FALSE, NoText,
                                   <<"No results found for '">> \o ArgValue(args)
                                       \o <<"'. Try more specific terms.">>,
                                   Absent))

\* tool_registry.execute_tool(tool_name, args)
execute_tool(tool_name, args) ==
    IF tool_name \notin Tools
      THEN Returns(<<>>, Returned(FALSE, <<"Tool '">> \o tool_name \o <<"' not found">>,
                                  NoText, Absent))
    ELSE LET out == IF tool_name = <<"sql", "_query">> THEN SQLExecute(args)
                    ELSE WebExecute(args)
             hint == get_hint_for_error(tool_name, args, out.error)
         IN  IF ~out.raised THEN out
             ELSE IF hint.raised
               THEN \* the exception of the handler leaves execute_tool
                    Raises(<<"'list' object has no attribute 'values'">>)
             ELSE Returns(<<FALSE>>, Returned(FALSE, out.error, hint.hint, Absent))

\* tool.record_execution(success) on the counters <<calls, successes>>
record_execution(counts, tool, success) ==
    << [counts[1] EXCEPT ![tool] = @ + 1],
       IF success THEN [counts[2] EXCEPT ![tool] = @ + 1] ELSE counts[2] >>

\* tool.success_rate, as the fraction <<numerator, denominator>>
success_rate(tool) ==
    IF call_count[tool] = 0 THEN <<0, 1>> ELSE <<success_count[tool], call_count[tool]>>

\* a call of execute_tool in the log
Exec(call, out) ==
    [kind |-> "execute_tool", phase |-> "execute_tool", calls |-> NoMetrics,
     ok |-> out.result.ok, name |-> call.name, args |-> call.args,
     raised |-> out.raised, result |-> out.result]

AtRegistryClient == pc \in {"client", "executed", "recorded"}

\* result = await tool_registry.execute_tool(tool_call.name, tool_call.args)
ExecuteTool ==
    /\ AtRegistryClient
    /\ Len(trace) < MaxExecutions
    /\ \E c \in RegistryCalls :
         LET out == execute_tool(c.name, c.args)
             counts == IF out.recorded = <<>> THEN <<call_count, success_count>>
                       ELSE record_execution(<<call_count, success_count>>, c.name,
                                             out.recorded[1])
         IN  /\ tool_call' = c
             /\ result' = out.result
             /\ call_count' = counts[1]
             /\ success_count' = counts[2]
             /\ trace' = Append(trace, Exec(c, out))
    /\ pc' = "executed"
    /\ UNCHANGED <<solver, WEBLLM_MODE, attempt, llm_calls, messages, response,
                   learned_patterns, return_value, tool_calls, passed_args, session_vars,
                   threads, tools, categories, payload_vars>>

\* agent.record_tool_interaction(tool_call, ToolResult(success=result["ok"],
\* hint=result.get("hint"), error=result.get("error")))
RecordResult ==
    /\ pc = "executed"
    /\ ~result.raised
    /\ LET r == ToolResult(result.ok, result.hint)
       IN  /\ messages' = add_message(add_message(messages, Msg("assistant", "tool_call")),
                                       ToolMsg(r))
           /\ learned_patterns' =
                  IF ~r.ok THEN extract_learning_pattern(learned_patterns, tool_call, r)[1]
                  ELSE learned_patterns
    /\ tool_calls' = tool_calls + 1
    /\ pc' = "recorded"
    /\ UNCHANGED <<solver, WEBLLM_MODE, attempt, llm_calls, response, result, trace,
                   tool_call, return_value, passed_args, session_vars, registry_vars, payload_vars>>

\* agent.execute(prompt, tools) up to its loop
AgentExecute ==
    /\ AtRegistryClient
    /\ messages' = add_message(add_message(messages, Msg("system", "system_prompt")),
                               Msg("user", "prompt"))
    /\ pc' = "v2_loop"
    /\ UNCHANGED <<solver, WEBLLM_MODE, attempt, llm_calls, response, result, learned_patterns,
                   trace, agent_vars, session_vars, registry_vars, payload_vars>>

NextRegistry ==
    \/ ExecuteTool
    \/ RecordResult
    \/ AgentExecute
    \/ V2Think
    \/ V2Learn
    \/ V2Final

RegistrySpec == InitMemory /\ [][NextRegistry]_vars

\* ---------------------------------------------------------------------
\* Registrations in the tool registry
\* ---------------------------------------------------------------------

MaxRegistrations == 3

\* the names and categories of the tools a caller registers
ToolNames == {<<"sql", "_query">>, <<"web_search">>, <<"calc">>}
ToolCategories == {"database", "web_search", "math"}

\* what dict.get returns for a missing key
NotFound == Tool(NoText, "", 0)

\* registry.get_tool(name)
get_tool(name) == IF name \in DOMAIN tools THEN tools[name] ELSE NotFound

\* the register_tool calls made so far, after the default tools
Registrations == SelectSeq(trace, LAMBDA e : e.kind = "register")

\* registry.register_tool(tool) for a new tool object
RegisterTool ==
    /\ pc \in {"client", "registered"}
    /\ Len(Registrations) < MaxRegistrations
    /\ \E name \in ToolNames, category \in ToolCategories :
          LET tool == Tool(name, category, Len(Registrations) + 3)
              after == register_tool([tools |-> tools, categories |-> categories], tool)
          IN  /\ tools' = after.tools
              /\ categories' = after.categories
              /\ trace' = Append(trace, [kind |-> "register", tool |-> tool])
    /\ pc' = "registered"
    /\ UNCHANGED <<solver, WEBLLM_MODE, attempt, llm_calls, messages, response, result,
                   learned_patterns, agent_vars, session_vars, payload_vars,
                   call_count, success_count, threads>>

RegistrationSpec == InitMemory /\ [][RegisterTool]_vars

\* ---------------------------------------------------------------------
\* get_hint_for_error applied to error texts and argument maps
\* ---------------------------------------------------------------------

\* the registered tools that carry error patterns and argument patterns
HintTools == {<<"sql", "_query">>, <<"web_search">>}

\* str(error) of the exceptions handed to get_hint_for_error
HintErrors ==
    { <<"Column '", "conversions", "' not found">>,
      <<"Column '", "foo", "' not found">>,
      <<"Column not found">>,
      <<"Conversions", " table missing">>,
      <<"column not found", ": ", "conversions">>,
      <<"No results">>,
      <<"unexpected keyword argument">>,
      <<>> }

\* the argument maps handed to get_hint_for_error
HintArgs ==
    { <<"{'column': '", "conversions", "'}">>,
      <<"{'column': '", "Conversions", "'}">>,
      <<"{'column': '", "convs", "'}">>,
      <<"{'column': '", "conversion", "'}">>,
      <<"{'query': '", "climate change", "'}">>,
      <<"{'query': '", "old data", " on ", "climate change", "'}">>,
      <<"{}">> }

\* one call of tool.get_hint_for_error(args, error) and what it returned
HintCall(tool, args, error) ==
    [kind |-> "get_hint", tool |-> tool, args |-> args, error |-> error,
     out |-> get_hint_for_error(tool, args, error)]

\* a caller asks a tool for the hint to an error
GetHint ==
    /\ pc = "client"
    /\ \E tool \in HintTools, args \in HintArgs, error \in HintErrors :
          trace' = Append(trace, HintCall(tool, args, error))
    /\ pc' = "hinted"
    /\ UNCHANGED <<solver, WEBLLM_MODE, attempt, llm_calls, messages, response, result,
                   learned_patterns, agent_vars, session_vars, registry_vars,
                   payload_vars>>

HintSpec == InitMemory /\ [][GetHint]_vars

\* the app solvers, and next to them an agent whose client executes tools
\* on the registry and records the results
AgentsSpec == (Init \/ InitMemory) /\ [][Next \/ NextRegistry]_vars

(***************************************************************************)
(* Threads that each call run_tool (asyncio.run of execute_tool) on the    *)
(* one module-level tool_registry.  `self._call_count += 1` is a load, an  *)
(* add and a store of the attribute, and record_execution takes no lock,   *)
(* so the loads and stores of two threads interleave freely.               *)
(***************************************************************************)
Executions(tool) == threads[1].runs[tool] + threads[2].runs[tool]
Successes(tool) == threads[1].wins[tool] + threads[2].wins[tool]
AllIdle == \A t \in Threads : threads[t].pc = "idle"

\* executions begun so far
Begun ==
    LET OfThread(t) ==
            threads[t].runs[<<"sql", "_query">>] + threads[t].runs[<<"web_search">>]
                + (IF threads[t].pc = "idle" THEN 0 ELSE 1)
    IN  OfThread(1) + OfThread(2)

Completed(th) ==
    [th EXCEPT !.pc = "idle",
               !.runs[th.tool] = @ + 1,
               !.wins[th.tool] = IF th.success THEN @ + 1 ELSE @]

\* tool.execute(**args) up to its call of record_execution(success)
ThreadExecute(t) ==
    /\ threads[t].pc = "idle"
    /\ Begun < MaxExecutions
    /\ \E tool \in Tools, success \in BOOLEAN :
         threads' = [threads EXCEPT ![t].pc = "load_calls", ![t].tool = tool,
                                    ![t].success = success]
    /\ UNCHANGED <<call_count, success_count>>

\* self._call_count += 1, the load
ThreadLoadCalls(t) ==
    /\ threads[t].pc = "load_calls"
    /\ threads' = [threads EXCEPT ![t].pc = "store_calls",
                                  ![t].seen = call_count[threads[t].tool]]
    /\ UNCHANGED <<call_count, success_count>>

\* self._call_count += 1, the store; `if success:`
ThreadStoreCalls(t) ==
    /\ threads[t].pc = "store_calls"
    /\ call_count' = [call_count EXCEPT ![threads[t].tool] = threads[t].seen + 1]
    /\ threads' = [threads EXCEPT ![t] = IF threads[t].success
                                           THEN [@ EXCEPT !.pc = "load_successes"]
                                           ELSE Completed(@)]
    /\ UNCHANGED success_count

\* self._success_count += 1, the load
ThreadLoadSuccesses(t) ==
    /\ threads[t].pc = "load_successes"
    /\ threads' = [threads EXCEPT ![t].pc = "store_successes",
                                  ![t].seen = success_count[threads[t].tool]]
    /\ UNCHANGED <<call_count, success_count>>

\* self._success_count += 1, the store
ThreadStoreSuccesses(t) ==
    /\ threads[t].pc = "store_successes"
    /\ success_count' = [success_count EXCEPT ![threads[t].tool] = threads[t].seen + 1]
    /\ threads' = [threads EXCEPT ![t] = Completed(@)]
    /\ UNCHANGED call_count

NextThreads ==
    /\ pc = "client"
    /\ \E t \in Threads :
         \/ ThreadExecute(t)
         \/ ThreadLoadCalls(t)
         \/ ThreadStoreCalls(t)
         \/ ThreadLoadSuccesses(t)
         \/ ThreadStoreSuccesses(t)
    /\ UNCHANGED <<solver, WEBLLM_MODE, pc, attempt, llm_calls, messages, response, result,
                   learned_patterns, trace, agent_vars, session_vars, payload_vars,
                   tools, categories>>

ThreadSpec == InitMemory /\ [][NextThreads]_vars

(***************************************************************************)
(* A session of either kind: a generator of src/app/agent.py or of         *)
(* agent_v2 running, or a v2 agent whose methods a client calls.           *)
(***************************************************************************)
InitSession == Init \/ InitMemory

NextSession == Next \/ NextMemory

SessionSpec == InitSession /\ [][NextSession]_vars

(***************************************************************************)
(* Reading the log.                                                        *)
(***************************************************************************)
IsEvent(e) == e.kind = "event"
IsPhase(e, ph) == e.kind = "event" /\ e.phase = ph
IsTerminal(e) == e.kind = "event" /\ e.phase \in {"success", "error"}
IsRequest(e) == e.kind = "request"
IsRun(e) == e.kind = "run_tool"
IsFailedResult(e) == IsPhase(e, "tool_result") /\ ~e.ok

\* positions of the log that satisfy P
Positions(P(_)) == {i \in 1..Len(trace) : P(trace[i])}
IsPropose(e) == IsPhase(e, "propose")
IsExecute(e) == IsPhase(e, "execute")
IsToolResult(e) == IsPhase(e, "tool_result")
IsSuccess(e) == IsPhase(e, "success")

\* the last request before position i (0 if there is none)
PrevRequest(i) ==
    IF \E k \in 1..(i - 1) : IsRequest(trace[k])
      THEN CHOOSE k \in 1..(i - 1) :
             IsRequest(trace[k]) /\ \A j \in (k + 1)..(i - 1) : ~IsRequest(trace[j])
      ELSE 0

\* number of propose events strictly between positions a and b
ProposesBetween(a, b) == Cardinality({k \in (a + 1)..(b - 1) : IsPropose(trace[k])})

\* position of the first tool_result event (0 if there is none)
FirstToolResult ==
    IF Positions(IsToolResult) = {} THEN 0
    ELSE CHOOSE i \in Positions(IsToolResult) : \A j \in Positions(IsToolResult) : i <= j

(***************************************************************************)
(* C1.  With an attempt bound of 3 and a tool whose every result fails     *)
(* verification, a session of solve_multi_pass or solve_single_pass ends   *)
(* with an error event after 3 failed verifications: no fourth tool        *)
(* execution happens.  (The solvers have no attempt bound.)                *)
(***************************************************************************)
C1_NoFourthExecution ==
    (solver \in AppSolvers /\ \A i \in Positions(IsToolResult) : ~trace[i].ok)
        => Cardinality(Positions(IsToolResult)) <= 3

(***************************************************************************)
(* C2.  Every session eventually ends: whatever the model and the tools    *)
(* return, the generator eventually stops (after its terminal event, or    *)
(* by an exception), so that its event sequence is finite.                 *)
(***************************************************************************)
C2_SessionEnds == <>(pc \in {"done", "raised"})

(***************************************************************************)
(* C3.  At most one event has phase success or error, and nothing is       *)
(* emitted (nor requested, nor run) after it: a terminal event is the      *)
(* last entry of the log.                                                  *)
(***************************************************************************)
C3_TerminalIsLast ==
    \A i \in 1..Len(trace) : IsTerminal(trace[i]) => i = Len(trace) /\ pc = "done"

C3_Witness ==
    /\ pc = "done"
    /\ Len(trace) >= 8
    /\ IsSuccess(trace[Len(trace)])
    /\ Positions(IsFailedResult) # {}

(***************************************************************************)
(* C4.  A transport failure of any provider request, the final-answer      *)
(* request included, is followed at once by an error event that ends the   *)
(* session.                                                                *)
(***************************************************************************)
C4_TransportFailureEndsInError ==
    \A i \in 1..Len(trace) :
        (IsRequest(trace[i]) /\ ~trace[i].ok)
            => /\ i + 1 = Len(trace)
               /\ IsPhase(trace[i + 1], "error")

C6_CallsEqualProposes ==
    \A i \in Positions(IsSuccess) :
        solver = "multi" => trace[i].calls = Cardinality(Positions(IsPropose))

(***************************************************************************)
(* C7 as stated.  solve_multi_pass: every event emitted after a tool       *)
(* result that failed verification carries llm_calls > 1.                  *)
(***************************************************************************)
C7_LaterEventsAboveOne ==
    \A i \in Positions(IsFailedResult) : \A j \in (i + 1)..Len(trace) :
        (solver = "multi" /\ IsEvent(trace[j]) /\ trace[j].calls # NoMetrics)
            => trace[j].calls > 1

(***************************************************************************)
(* C7 amended.  solve_multi_pass: after a tool result that failed          *)
(* verification, every event emitted once the next provider request has    *)
(* returned carries llm_calls > 1.                                         *)
(***************************************************************************)
C7_AfterNextRequestAboveOne ==
    \A i \in Positions(IsFailedResult) : \A k \in (i + 1)..Len(trace) :
        \A j \in (k + 1)..Len(trace) :
            ( /\ solver = "multi"
              /\ IsRequest(trace[k]) /\ trace[k].ok
              /\ IsEvent(trace[j]) /\ trace[j].calls # NoMetrics )
                => trace[j].calls > 1

C7_Witness ==
    /\ solver = "multi"
    /\ \E i \in Positions(IsFailedResult) : \E k \in (i + 1)..Len(trace) :
         /\ IsRequest(trace[k]) /\ trace[k].ok
         /\ \E j \in (k + 1)..Len(trace) : IsExecute(trace[j]) /\ trace[j].calls = 2

(***************************************************************************)
(* C8.  Every success event of solve_multi_pass that follows a tool call   *)
(* carries llm_calls > 1 (first tool call verified or a later one).        *)
(***************************************************************************)
C8_SuccessAboveOne ==
    \A i \in Positions(IsSuccess) :
        (solver = "multi" /\ FirstToolResult > 0) => trace[i].calls > 1

(***************************************************************************)
(* C9 as stated.  In both solvers every provider request, the final-answer *)
(* request included, is preceded by exactly one propose event since the    *)
(* previous request, and no propose is pending when another is emitted.    *)
(***************************************************************************)
C9_OneProposePerRequest ==
    solver \in AppSolvers =>
        /\ \A i \in Positions(IsRequest) : ProposesBetween(PrevRequest(i), i) = 1
        /\ ProposesBetween(PrevRequest(Len(trace) + 1), Len(trace) + 1) <= 1

(***************************************************************************)
(* C9 amended.  Every provider request of solve_multi_pass and every loop  *)
(* request of solve_single_pass is preceded by exactly one propose event   *)
(* since the previous request; the final-answer request of                 *)
(* solve_single_pass is preceded by none; and a propose event is always    *)
(* followed by a request before the next propose.                          *)
(***************************************************************************)
C9_OneProposePerCountedRequest ==
    solver \in AppSolvers =>
        /\ \A i \in Positions(IsRequest) :
             ProposesBetween(PrevRequest(i), i) =
                 IF solver = "single" /\ trace[i].phase = "final" THEN 0 ELSE 1
        /\ ProposesBetween(PrevRequest(Len(trace) + 1), Len(trace) + 1) <= 1
        /\ \A i \in Positions(IsPropose) :
             i = Len(trace) \/ IsRequest(trace[i + 1])

C9_Witness ==
    /\ pc = "done"
    /\ solver = "multi"
    /\ \E i \in Positions(IsRequest) : trace[i].phase = "final" /\ trace[i].ok
    /\ Positions(IsFailedResult) # {}

(***************************************************************************)
(* C10.  In both solvers every execute event is immediately followed by    *)
(* one tool run and its tool_result event, and every tool_result event is  *)
(* immediately preceded by the run and the execute event of its call.      *)
(***************************************************************************)
C10_ExecuteResultPairs ==
    /\ \A i \in Positions(IsExecute) :
         \/ i = Len(trace) /\ pc = "run"
         \/ /\ i + 2 <= Len(trace)
            /\ IsRun(trace[i + 1]) /\ trace[i + 1].ok
            /\ IsToolResult(trace[i + 2])
    /\ \A j \in Positions(IsToolResult) :
         /\ j > 2
         /\ IsRun(trace[j - 1])
         /\ IsExecute(trace[j - 2])

(***************************************************************************)
(* Reading the log by turns.  A turn starts at a loop request that         *)
(* returned; `response` is the text of the last turn.                      *)
(***************************************************************************)
IsTurn(e) == IsRequest(e) /\ e.phase = "loop" /\ e.ok

\* position of the last turn's request (0 if there is none)
LastTurn ==
    IF Positions(IsTurn) = {} THEN 0
    ELSE CHOOSE i \in Positions(IsTurn) : \A j \in Positions(IsTurn) : j <= i

\* positions of the last turn that satisfy P
TurnPositions(P(_)) == {i \in Positions(P) : i > LastTurn}

\* position of the first marker of a text (0 if there is none)
FirstMarker(text) ==
    IF \E k \in 1..Len(text) : text[k] = "M"
      THEN CHOOSE k \in 1..Len(text) :
             text[k] = "M" /\ \A j \in 1..(k - 1) : text[j] # "M"
      ELSE 0

\* the text holds the marker followed by a complete JSON object
CallText(text) ==
    /\ FirstMarker(text) > 0
    /\ FirstMarker(text) < Len(text)
    /\ text[FirstMarker(text) + 1] = "J"

\* the text after the marker begins with a JSON object cut short
TruncatedText(text) ==
    /\ FirstMarker(text) > 0
    /\ FirstMarker(text) < Len(text)
    /\ text[FirstMarker(text) + 1] = "P"

(***************************************************************************)
(* C11.  A turn whose text holds the marker TOOL_CALL: followed by a       *)
(* complete JSON object yields exactly one execute event and exactly one   *)
(* call of run_tool, whatever precedes the marker; no turn yields more     *)
(* than one execute event or more than one call of run_tool.  (Text that   *)
(* follows the object makes json.loads fail: no call is executed.)         *)
(***************************************************************************)
C11_OneCallPerTurn ==
    solver \in AppSolvers =>
        /\ Cardinality(TurnPositions(IsExecute)) <= 1
        /\ Cardinality(TurnPositions(IsRun)) <= 1
        /\ (CallText(response.text) /\ pc # "parse") =>
               /\ Cardinality(TurnPositions(IsExecute)) = 1
               /\ pc # "run" => Cardinality(TurnPositions(IsRun)) = 1

(***************************************************************************)
(* C12.  A turn whose payload after the marker is cut short yields no      *)
(* execute event and no call of run_tool, and no exception ends the        *)
(* generator: the turn's model_response event is followed by a failure     *)
(* event and the generator goes on to its next iteration.                  *)
(***************************************************************************)
C12_TruncatedIsParseFailure ==
    (solver \in AppSolvers /\ TruncatedText(response.text) /\ pc # "parse") =>
        /\ TurnPositions(IsExecute) = {}
        /\ TurnPositions(IsRun) = {}
        /\ TurnPositions(IsToolResult) = {}
        /\ pc # "raised"
        /\ Len(trace) >= LastTurn + 2
        /\ IsPhase(trace[LastTurn + 1], "model_response")
        /\ IsPhase(trace[LastTurn + 2], "failure")

C12_Witness ==
    /\ pc = "loop"
    /\ response.text = <<"w", "M", "P">>
    /\ attempt = 2
    /\ IsPhase(trace[Len(trace)], "failure")
    /\ TurnPositions(IsExecute) = {}

(***************************************************************************)
(* C13.  A turn whose tool call does not parse is recoverable: the solver  *)
(* yields a failure event (no terminal event), appends the parse error as  *)
(* a tool-role message, and goes to the next iteration; the next request   *)
(* to the model is made with the turn's history, the assistant turn and    *)
(* that message.                                                           *)
(***************************************************************************)
\* positions of the failure events that report a parse error
ParseFailures ==
    {i \in 2..Len(trace) :
        IsPhase(trace[i], "failure") /\ IsPhase(trace[i - 1], "model_response")}

\* the history after a parse failure at position i
HistoryAfter(i) ==
    trace[PrevRequest(i)].sent
        \o <<Msg("assistant", "response"), Msg("tool", "invalid_format")>>

C13_ParseFailureRecoverable ==
    solver \in AppSolvers =>
        \A i \in ParseFailures :
            /\ i = Len(trace) => pc = "loop" /\ messages = HistoryAfter(i)
            /\ i < Len(trace) => IsPropose(trace[i + 1])
            /\ \A k \in (i + 1)..Len(trace) :
                   (IsRequest(trace[k]) /\ PrevRequest(k) = PrevRequest(i))
                       => trace[k].phase = "loop" /\ trace[k].sent = HistoryAfter(i)

C13_Witness ==
    \E i \in ParseFailures : \E k \in (i + 1)..Len(trace) :
        /\ IsRequest(trace[k]) /\ trace[k].ok
        /\ trace[k].sent = HistoryAfter(i)
        /\ pc = "parse"

(***************************************************************************)
(* C14.  A payload after the marker is taken as a tool call only if it is  *)
(* an object with a name: a turn whose payload is valid JSON but no        *)
(* object, or an object without a name, yields no execute event and no     *)
(* call of run_tool, and no exception ends the generator.  (A payload that *)
(* is no object raises AttributeError in get_tool_args; an object without  *)
(* a name is executed as a call of the tool None.)                         *)
(***************************************************************************)
C14_OnlyNamedObjectsAccepted ==
    (/\ solver \in AppSolvers
     /\ pc # "parse"
     /\ \/ response.payload = "nonobject"
        \/ response.payload = "object" /\ response.name = "absent")
        => /\ TurnPositions(IsExecute) = {}
           /\ TurnPositions(IsRun) = {}
           /\ pc # "raised"

(***************************************************************************)
(* C15.  A call that names an unregistered tool (foo) gets a failed result *)
(* whose hint contains the unknown name and the name of every registered   *)
(* tool; the generator does not end on it: the failure / patch event       *)
(* follows and the loop goes on.  (The hint of run_tool names no           *)
(* registered tool.)                                                       *)
(***************************************************************************)
IsRetry(e) == IsPhase(e, "failure") \/ IsPhase(e, "patch")

C15_UnknownToolHintListsTools ==
    (/\ solver \in AppSolvers
     /\ response.name = "unknown"
     /\ pc \notin {"parse", "run"})
        => /\ ~result.ok
           /\ IsSubSeq(ToolName("unknown"), result.hint)
           /\ \A t \in TOOL_REGISTRY : IsSubSeq(t, result.hint)
           /\ pc # "raised"
           /\ pc # "verify" => Cardinality(TurnPositions(IsRetry)) = 1

(***************************************************************************)
(* C16.  The entry point that executes a tool never lets an exception      *)
(* out: every call of run_tool returns, and a call whose arguments do not  *)
(* fit the tool returns a failed result with a hint.  (A name that is a    *)
(* JSON list or object makes the registry lookup raise TypeError before    *)
(* the try block.)                                                         *)
(***************************************************************************)
C16_ExecuteNeverPropagates ==
    solver \in AppSolvers =>
        /\ \A i \in Positions(IsRun) : trace[i].ok
        /\ (pc = "verify" /\ response.name = "known" /\ ~response.argsOk)
               => ~result.ok /\ result.hint # NoText

(***************************************************************************)
(* C17.  extract_learning_pattern with a failed result that has a hint     *)
(* stores, for a context not yet stored, a new pattern whose solution is   *)
(* that hint and returns it; for a context already stored it adds no       *)
(* entry, increments that pattern's usage_count and returns it.  No two    *)
(* stored patterns ever share a context.                                   *)
(***************************************************************************)
DistinctContexts ==
    \A j, k \in 1..Len(learned_patterns) :
        learned_patterns[j].context = learned_patterns[k].context => j = k

ExtractStep ==
    (pc' \in {"extracted", "recorded"} /\ ~result'.ok /\ result'.hint # NoText) =>
        LET key == <<"Tool '">> \o tool_call'.name \o <<"' with args ">> \o tool_call'.args
            old == {k \in 1..Len(learned_patterns) : learned_patterns[k].context = key}
        IN  IF old = {}
              THEN /\ learned_patterns' =
                          Append(learned_patterns,
                                 [pattern_type |-> "hint", context |-> key,
                                  solution |-> result'.hint,
                                  confidence |-> InitialConfidence, usage_count |-> 0])
                   /\ pc' = "extracted" => return_value' = Len(learned_patterns')
              ELSE /\ Len(learned_patterns') = Len(learned_patterns)
                   /\ \A k \in 1..Len(learned_patterns) :
                          learned_patterns'[k] =
                              IF k \in old
                                THEN [learned_patterns[k] EXCEPT
                                         !.usage_count = learned_patterns[k].usage_count + 1]
                                ELSE learned_patterns[k]
                   /\ pc' = "extracted" => return_value' \in old

C18_NoPatternWithoutFailureHint ==
    [][(pc' = "extracted" /\ (result'.ok \/ result'.hint = NoText)) =>
           /\ return_value' = 0
           /\ learned_patterns' = learned_patterns
           /\ messages' = messages]_vars

C18_Witness ==
    /\ pc = "extracted"
    /\ ~result.ok /\ result.hint = NoText
    /\ return_value = 0
    /\ Len(learned_patterns) = 1
    /\ learned_patterns[1].context = PatternContext(tool_call)
    /\ learned_patterns[1].usage_count = 0
    /\ Len(messages) = 2

(***************************************************************************)
(* C19.  get_relevant_patterns(call) is the list of the stored patterns    *)
(* that were extracted from calls of the tool call.name, in insertion      *)
(* order (every confidence is the same); after one failure with a hint is  *)
(* recorded for a tool, a call of that tool has exactly one relevant       *)
(* pattern.  (The test `tool_call.name in pattern.context` also takes the  *)
(* patterns of other tools whose arguments mention the name.)              *)
(***************************************************************************)
\* pattern p was extracted from a call of the tool `name`
ExtractedFor(p, name) ==
    \E c \in ToolCalls : c.name = name /\ p.context = PatternContext(c)

C19_RelevantAreSameTool ==
    AtClient =>
        \A c \in ToolCalls :
            get_relevant_patterns(c.name)
                = SelectSeq(learned_patterns, LAMBDA p : ExtractedFor(p, c.name))

(***************************************************************************)
(* C20.  should_apply_learning(call) returns an alert exactly when call    *)
(* has relevant patterns, the most recent tool-role message is a failure   *)
(* with a hint, and the solution of a relevant pattern is a substring of   *)
(* that hint.  (get_last_tool_result skips a tool message whose content    *)
(* is no JSON and reads an older one.)                                     *)
(***************************************************************************)
\* index of the most recent tool-role message (0 if there is none)
MostRecentTool ==
    IF \E i \in 1..Len(messages) : messages[i].role = "tool"
      THEN CHOOSE i \in 1..Len(messages) :
             messages[i].role = "tool"
                 /\ \A j \in (i + 1)..Len(messages) : messages[j].role # "tool"
      ELSE 0

C20_AlertIff ==
    pc = "asked" =>
        (return_value = 1 <=>
            /\ Len(get_relevant_patterns(tool_call.name)) > 0
            /\ MostRecentTool > 0
            /\ messages[MostRecentTool].text = "result"
            /\ ~messages[MostRecentTool].ok
            /\ messages[MostRecentTool].hint # NoText
            /\ \E k \in 1..Len(get_relevant_patterns(tool_call.name)) :
                   IsSubSeq(get_relevant_patterns(tool_call.name)[k].solution,
                            messages[MostRecentTool].hint))

(***************************************************************************)
(* C21.  Learning only injects context: should_apply_learning,             *)
(* get_relevant_patterns, extract_learning_pattern and                     *)
(* record_tool_interaction leave the args of the call they are given as    *)
(* they were passed, and should_apply_learning leaves the message list     *)
(* and the pattern list unchanged.                                         *)
(***************************************************************************)
ArgsKept ==
    pc \in {"asked", "listed", "extracted", "recorded"} => tool_call.args = passed_args

C21_LearningLeavesArgs ==
    /\ [](ArgsKept)
    /\ [][pc' = "asked" => messages' = messages /\ learned_patterns' = learned_patterns]_vars

C21_Witness ==
    /\ pc = "asked"
    /\ return_value = 1
    /\ tool_call.args = <<"{'column': '", "conversions", "'}">>
    /\ passed_args = <<"{'column': '", "conversions", "'}">>
    /\ Len(learned_patterns) > 0

(***************************************************************************)
(* C22.  The memory of a session only grows: in every step the message     *)
(* list before the step is a prefix of the message list after it, the      *)
(* pattern list does not get shorter, and a stored pattern changes in      *)
(* place only, by its usage_count going up.                                *)
(***************************************************************************)
IsPrefix(s, t) == Len(s) <= Len(t) /\ SubSeq(t, 1, Len(s)) = s

C22_MemoryGrows ==
    [][/\ IsPrefix(messages, messages')
       /\ Len(learned_patterns) <= Len(learned_patterns')
       /\ \A k \in 1..Len(learned_patterns) :
              /\ learned_patterns'[k].usage_count >= learned_patterns[k].usage_count
              /\ [learned_patterns'[k] EXCEPT !.usage_count = 0]
                     = [learned_patterns[k] EXCEPT !.usage_count = 0]]_vars

C22_Witness ==
    /\ pc = "extracted"
    /\ Len(messages) = 2
    /\ messages[2].role = "tool"
    /\ Len(learned_patterns) = 1
    /\ learned_patterns[1].usage_count = 1

(***************************************************************************)
(* C23.  Sessions share nothing: an operation of one session (adding a     *)
(* message, recording a tool interaction, extracting a pattern) leaves     *)
(* the message list and the pattern list of every other session as they    *)
(* were, and every pattern that is relevant to a call in a session was     *)
(* extracted in that session.                                              *)
(***************************************************************************)
OthersUntouched ==
    \A o \in Sessions :
        o # acting' => memories'[memory_of(o)] = memories[memory_of(o)]

RelevantAreOwn ==
    \A s \in Sessions, c \in ToolCalls :
        LET relevant == RelevantIn(memories[memory_of(s)].learned_patterns, c.name)
        IN  \A k \in 1..Len(relevant) : <<s, relevant[k].context>> \in learned_in

C23_NoCrossSessionSharing == [](RelevantAreOwn) /\ [][OthersUntouched]_vars

C23_Witness ==
    /\ acting = 2
    /\ Len(memories[memory_of(1)].learned_patterns) = 1
    /\ Len(memories[memory_of(1)].messages) = 2
    /\ memories[memory_of(2)].learned_patterns = <<>>
    /\ Len(memories[memory_of(2)].messages) = 1
    /\ RelevantIn(memories[memory_of(1)].learned_patterns, <<"sql", "_query">>) # <<>>

(***************************************************************************)
(* C24.  Counters under parallel use: once every thread has finished, a    *)
(* tool's call counter equals the number of its executions and its         *)
(* success counter the number of successful ones (no update is lost).      *)
(***************************************************************************)
C24_NoLostUpdate ==
    AllIdle =>
        \A tool \in Tools :
            /\ call_count[tool] = Executions(tool)
            /\ success_count[tool] = Successes(tool)

(***************************************************************************)
(* C25.  Every execution of a registered tool through the registry adds    *)
(* one to the tool's call counter, and one to its success counter exactly  *)
(* when the result returned is successful, whether the tool returned or    *)
(* threw; so successes never exceed calls, and success_rate is their       *)
(* quotient, 0 for a tool never called.                                    *)
(***************************************************************************)
IsExecution(e) == e.kind = "execute_tool"

ExecutionCounted ==
    LET e == trace'[Len(trace')]
    IN  (Len(trace') = Len(trace) + 1 /\ IsExecution(e) /\ e.name \in Tools) =>
            /\ call_count'[e.name] = call_count[e.name] + 1
            /\ success_count'[e.name] =
                  success_count[e.name] + (IF ~e.raised /\ e.ok THEN 1 ELSE 0)

RateIsQuotient ==
    \A tool \in Tools :
        /\ success_count[tool] <= call_count[tool]
        /\ call_count[tool] = 0 => success_rate(tool)[1] = 0
        /\ call_count[tool] > 0 =>
              success_rate(tool)[1] * call_count[tool]
                  = success_count[tool] * success_rate(tool)[2]

C25_EachExecutionCounted == [](RateIsQuotient) /\ [][ExecutionCounted]_vars

(***************************************************************************)
(* C26.  The sql_query scenario on the registry: a call with column        *)
(* "conversions" fails with a hint that contains "Did you mean 'convs'?",  *)
(* and recording that result leaves exactly one learned pattern for the    *)
(* call (the only pattern, in a fresh memory); a call with column "convs"  *)
(* succeeds with data 12345; and the agent's session run after these two   *)
(* attempts ends with a success event, not an error event.                 *)
(***************************************************************************)
SqlCall(column) == ToolCall(<<"sql", "_query">>, <<"{'column': '", column, "'}">>)

IsAttempt(e, column) ==
    IsExecution(e) /\ e.name = SqlCall(column).name /\ e.args = SqlCall(column).args

ConversionsFails ==
    \A i \in Positions(IsExecution) :
        IsAttempt(trace[i], "conversions") =>
            /\ ~trace[i].raised
            /\ ~trace[i].result.ok
            /\ IsSubSeq(<<"Did you mean 'convs'?">>, trace[i].result.hint)

ConvsSucceeds ==
    \A i \in Positions(IsExecution) :
        IsAttempt(trace[i], "convs") =>
            ~trace[i].raised /\ trace[i].result.ok /\ trace[i].result.data = 12345

RecordingLearnsOne ==
    (pc = "executed" /\ pc' = "recorded" /\ tool_call = SqlCall("conversions")) =>
        /\ Cardinality({k \in 1..Len(learned_patterns') :
                           learned_patterns'[k].context = PatternContext(tool_call)}) = 1
        /\ learned_patterns = <<>> => Len(learned_patterns') = 1

EndsWithSuccess ==
    \A i \in Positions(IsTerminal) :
        (\E j, k \in 1..(i - 1) :
            j < k /\ IsAttempt(trace[j], "conversions") /\ IsAttempt(trace[k], "convs"))
        => IsSuccess(trace[i])

C26_SqlScenario ==
    /\ [](ConversionsFails /\ ConvsSucceeds /\ EndsWithSuccess)
    /\ [][RecordingLearnsOne]_vars

C26_Witness ==
    /\ pc = "done"
    /\ Len(trace) = 4
    /\ IsAttempt(trace[1], "conversions") /\ ~trace[1].ok
    /\ IsAttempt(trace[2], "convs") /\ trace[2].result.data = 12345
    /\ IsSuccess(trace[4])
    /\ Len(learned_patterns) = 1
    /\ learned_patterns[1].solution
          = <<"The column 'conversions' doesn't exist. ", "Did you mean 'convs'?">>

(***************************************************************************)
(* C27.  With server-side inference disabled (WEBLLM_MODE "webllm") or     *)
(* without a provider client, a solver's whole session is one event, of    *)
(* phase error, whose message names the limitation; no model is invoked    *)
(* and no tool is executed.                                                *)
(***************************************************************************)
NoInference == solver \in AppSolvers /\ (WEBLLM_MODE = "webllm" \/ WEBLLM_MODE = "other")

NamesLimitation(e) ==
    IF WEBLLM_MODE = "webllm" THEN IsSubSeq(<<"WebLLM mode">>, e.message)
    ELSE IsSubSeq(<<"vLLM client not initialized.">>, e.message)

ShownCalls(e) ==
    IF e.calls = NoMetrics THEN NoMetrics
    ELSE IF solver \in AppSolvers THEN llm_calls
    ELSE e.calls

C28_EveryEventHasSnapshot ==
    \A i \in Positions(IsEvent) :
        trace[i].calls # NoMetrics /\ ShownCalls(trace[i]) = trace[i].calls

(***************************************************************************)
(* C29.  A turn whose text holds the marker more than once, with a         *)
(* complete JSON object after one of the occurrences: the first such       *)
(* occurrence is honored, so the turn has exactly one execute event and    *)
(* one call of run_tool, and no later occurrence adds another.             *)
(***************************************************************************)
Markers(text) == {k \in 1..Len(text) : text[k] = "M"}

\* some occurrence of the marker is followed by a complete JSON object
SomeOccurrenceParses(text) ==
    \E k \in Markers(text) : k < Len(text) /\ text[k + 1] = "J"

C29_FirstParsedOccurrenceHonored ==
    (/\ solver \in AppSolvers
     /\ Cardinality(Markers(response.text)) > 1
     /\ SomeOccurrenceParses(response.text)
     /\ pc # "parse") =>
        /\ Cardinality(TurnPositions(IsExecute)) = 1
        /\ pc # "run" => Cardinality(TurnPositions(IsRun)) = 1

(***************************************************************************)
(* C30.  The args of a recognized call are the value of the payload's      *)
(* args key if it has one, else of its arguments key, else the empty map;  *)
(* the tool function is called with exactly these.                         *)
(***************************************************************************)
ArgsOfPayload(d) ==
    IF "args" \in DOMAIN d THEN d.args
    ELSE IF "arguments" \in DOMAIN d THEN d.arguments
    ELSE <<"{}">>

C30_ArgsFromPayload ==
    /\ pc \in {"standardized", "executed", "returned"} =>
          call_data.args = ArgsOfPayload(trace[1].data)
    /\ pc = "executed" => passed_args = ArgsOfPayload(trace[1].data)

C30_Witness ==
    /\ pc = "executed"
    /\ DOMAIN trace[1].data = {"name", "arguments"}
    /\ trace[1].data.arguments = <<"{'column': '", "conversions", "'}">>
    /\ passed_args = <<"{'column': '", "conversions", "'}">>
    /\ result.ok

(***************************************************************************)
(* C31.  A turn without the marker and with non-empty content ends the     *)
(* session with a success event whose answer is the turn's content, and    *)
(* no tool is executed for the turn; a turn without the marker whose       *)
(* content is empty is not reported as a success.                          *)
(***************************************************************************)
NoCallTurn ==
    /\ solver \in AppSolvers
    /\ LastTurn > 0
    /\ pc # "parse"
    /\ response.payload # "nocontent"
    /\ ~response.marker

C31_NoCallTurnIsFinalAnswer ==
    NoCallTurn =>
        IF response.text # <<>>
          THEN /\ pc = "done"
               /\ IsSuccess(trace[Len(trace)])
               /\ trace[Len(trace)].answer = response.text
               /\ TurnPositions(IsExecute) = {}
               /\ TurnPositions(IsRun) = {}
          ELSE ~IsSuccess(trace[Len(trace)])

(***************************************************************************)
(* C32.  verify holds exactly for a dict whose "ok" is the boolean True:   *)
(* a missing flag, a truthy flag that is no boolean and a value that is    *)
(* no dict all fail; and a solver makes its final-answer request only      *)
(* after a tool result for which verify held.                              *)
(***************************************************************************)
WellFormedSuccess ==
    {[type |-> "dict", oktype |-> "bool", ok |-> TRUE, hint |-> NoText, raised |-> FALSE]}

IsFinalRequest(e) == IsRequest(e) /\ e.phase = "final"

C32_VerifyExact ==
    /\ pc = "verified" => (return_value = 1 <=> result \in WellFormedSuccess)
    /\ pc = "final" => verify(result) /\ result.ok
    /\ \A i \in Positions(IsFinalRequest) :
          \E j \in 1..(i - 1) :
              /\ IsToolResult(trace[j]) /\ trace[j].ok
              /\ \A k \in (j + 1)..(i - 1) : ~IsToolResult(trace[k]) /\ ~IsRequest(trace[k])

C32_Witness ==
    /\ pc = "verified"
    /\ "oktype" \in DOMAIN result /\ result.oktype = "int" /\ result.ok
    /\ return_value = 0

(***************************************************************************)
(* C33.  A tool call's turn and its result enter the history together:     *)
(* every tool-role message directly follows an assistant message, and in   *)
(* a BaseAgent the tool_calls metric equals the number of tool-role        *)
(* messages that record_tool_interaction added.                            *)
(***************************************************************************)
ToolMessages == {k \in 1..Len(messages) : messages[k].role = "tool"}

C33_CallThenResult ==
    /\ \A k \in ToolMessages : k > 1 /\ messages[k - 1].role = "assistant"
    /\ solver \notin AppSolvers => tool_calls = Cardinality(ToolMessages)

C33_Witness ==
    /\ solver = "v2multi"
    /\ tool_calls = 2
    /\ ToolMessages = {2, 4}
    /\ ~messages[2].ok /\ messages[4].ok

(***************************************************************************)
(* C34.  A solver starts its history with a system message followed by     *)
(* the user prompt and nothing else, before its first model invocation,    *)
(* and these stay the first two messages; the user message of the          *)
(* continued-context solver is the prompt prefixed with the tool           *)
(* signature.                                                              *)
(***************************************************************************)
IsSeeded(msgs) ==
    /\ Len(msgs) >= 2
    /\ msgs[1].role = "system"
    /\ msgs[2].role = "user"
    /\ msgs[2].text[Len(msgs[2].text)] = "prompt"
    /\ solver = "single" => msgs[2].text[1] = "TOOL_SIGNATURE: " /\ msgs[2].text[2] = "signature"
    /\ \A k \in 3..Len(msgs) : msgs[k].role \notin {"system", "user"}

AfterFailedResult(i) ==
    \E j \in (PrevRequest(i) + 1)..(i - 1) : IsFailedResult(trace[j])

C35_WholeHistorySent ==
    solver = "multi" =>
        \A i \in Positions(IsRequest) :
            PrevRequest(i) > 0 =>
                LET before == trace[PrevRequest(i)].sent
                    now == trace[i].sent
                IN  /\ IsPrefix(before, now)
                    /\ Len(before) < Len(now)
                    /\ AfterFailedResult(i) =>
                          /\ now[Len(now)].role = "tool"
                          /\ ~now[Len(now)].ok
                          /\ Len(now) = Len(before) + 2
                          /\ now[Len(now) - 1].role = "assistant"

C35_Witness ==
    /\ solver = "multi"
    /\ Cardinality(Positions(IsRequest)) = 2
    /\ \E i \in Positions(IsRequest) : PrevRequest(i) > 0 /\ AfterFailedResult(i)

(***************************************************************************)
(* C36.  The steps of a session follow one another: requests and tool      *)
(* runs are never in progress together, a tool runs only after the         *)
(* request whose turn holds its call has returned, at most once per turn,  *)
(* and the next request is made only after the tool result has been        *)
(* appended to the history.                                                *)
(***************************************************************************)
\* a tool ran and returned between the previous request and position i
AfterRun(i) ==
    \E j \in (PrevRequest(i) + 1)..(i - 1) : IsRun(trace[j]) /\ trace[j].ok

C36_PhasesInSequence ==
    solver \in AppSolvers =>
        /\ \A i \in Positions(IsRun) :
              /\ PrevRequest(i) > 0
              /\ IsTurn(trace[PrevRequest(i)])
              /\ \A j \in (PrevRequest(i) + 1)..(i - 1) : ~IsRun(trace[j])
        /\ \A i \in Positions(IsRequest) :
              AfterRun(i) =>
                  LET sent == trace[i].sent
                  IN  /\ sent[Len(sent)].role = "tool"
                      /\ sent[Len(sent) - 1].role = "assistant"
                      /\ Len(sent) = Len(trace[PrevRequest(i)].sent) + 2
        /\ pc = "run" => IsExecute(trace[Len(trace)]) /\ IsTurn(trace[LastTurn])
        /\ pc = "invoke" => IsPropose(trace[Len(trace)])

C36_Witness ==
    /\ solver = "single"
    /\ pc = "invoke"
    /\ Cardinality(Positions(IsRun)) = 1
    /\ Cardinality(Positions(IsRequest)) = 1
    /\ messages[Len(messages)].role = "tool"

\* C37: get_hint_for_error returns the hint of the first error pattern, in the
\* order of common_errors, that occurs in the lower-cased error text; only when
\* no error pattern occurs, the hint of the first argument pattern, in the order
\* of learning_hints, that occurs in an argument value; and no hint when neither
\* kind of pattern occurs.
IsHintCall(e) == e.kind = "get_hint"

ErrorPatternAt(e, k) == IsSubSeq(common_errors(e.tool)[k][1], Lower(e.error))

ArgPatternAt(e, k) == IsSubSeq(learning_hints(e.tool)[k][1], Lower(ArgValue(e.args)))

C37_FirstErrorPatternThenFirstArgPattern ==
    \A i \in 1..Len(trace) :
        IsHintCall(trace[i]) =>
            LET e == trace[i]
                errors == 1..Len(common_errors(e.tool))
                patterns == 1..Len(learning_hints(e.tool))
            IN  /\ ~e.out.raised
                /\ \A k \in errors :
                      (ErrorPatternAt(e, k) /\ \A j \in 1..(k - 1) : ~ErrorPatternAt(e, j))
                          => e.out.hint = common_errors(e.tool)[k][2]
                /\ \A k \in patterns :
                      (/\ \A j \in errors : ~ErrorPatternAt(e, j)
                       /\ ArgPatternAt(e, k)
                       /\ \A j \in 1..(k - 1) : ~ArgPatternAt(e, j))
                          => e.out.hint = learning_hints(e.tool)[k][2]
                /\ ((\A j \in errors : ~ErrorPatternAt(e, j))
                     /\ (\A j \in patterns : ~ArgPatternAt(e, j)))
                          => e.out.hint = NoText

\* an error text that holds the second error pattern only, in capitals, met with
\* an argument value that holds an argument pattern: the error pattern wins
C37_Witness ==
    /\ pc = "hinted"
    /\ trace[1].error = <<"Conversions", " table missing">>
    /\ trace[1].args = <<"{'column': '", "conversion", "'}">>
    /\ trace[1].out.hint = common_errors(<<"sql", "_query">>)[2][2]

\* C38: after any sequence of registrations, get_tool(name) is the tool
\* registered last under name, and the not-found marker for a name never
\* registered; every name listed under a category is listed there once and is
\* the name of a registered tool of that category.
LastRegistered(name) ==
    LET own == SelectSeq(Registrations, LAMBDA e : e.tool.name = name)
    IN  IF own # <<>> THEN own[Len(own)].tool
        ELSE IF name \in DOMAIN DefaultRegistry.tools THEN DefaultRegistry.tools[name]
        ELSE NotFound

GetReturnsLastRegistered == \A name \in ToolNames : get_tool(name) = LastRegistered(name)

ListedOnce ==
    \A c \in DOMAIN categories :
        \A i, j \in 1..Len(categories[c]) : categories[c][i] = categories[c][j] => i = j

ListedUnderOwnCategory ==
    \A c \in DOMAIN categories :
        \A i \in 1..Len(categories[c]) :
            /\ categories[c][i] \in DOMAIN tools
            /\ tools[categories[c][i]].category = c

C38_RegistryAndCategoryIndex ==
    GetReturnsLastRegistered /\ ListedOnce /\ ListedUnderOwnCategory

\* C39: whatever the names and argument values of the calls, no pattern that
\* get_relevant_patterns(call) returns was extracted from a call of a tool
\* whose name is not call.name.
ExtractedFromOtherTool(p, name) ==
    \E c \in ToolCalls : c.name # name /\ p.context = PatternContext(c)

C39_NoPatternOfOtherTool ==
    \A c \in ToolCalls :
        LET relevant == get_relevant_patterns(c.name)
        IN  \A i \in 1..Len(relevant) : ~ExtractedFromOtherTool(relevant[i], c.name)

\* C40: in a session of solve_multi_pass or solve_single_pass the counter
\* llm_calls never decreases and never exceeds the number of loop iterations
\* begun; a step raises it by one at most, and only a step in which the
\* request of the loop returned; a step in which a request failed leaves it
\* as it was.
RequestOfStep == IF Len(trace') > Len(trace) THEN trace'[Len(trace) + 1] ELSE Ev("none", 0)

LlmCallsStep ==
    /\ llm_calls' >= llm_calls
    /\ llm_calls' <= llm_calls + 1
    /\ llm_calls' # llm_calls => IsTurn(RequestOfStep)
    /\ (IsRequest(RequestOfStep) /\ ~RequestOfStep.ok) => llm_calls' = llm_calls

====
